---- MODULE Spec2Model ----
(***************************************************************************)
(* Model of the skill evaluation pipeline of scripts/evaluate-agent-skills *)
(* (.mjs) and scripts/llm-evaluator.mjs: the frontmatter parser, the two   *)
(* rule-based validators, the command dispatcher main(), and the judge's   *)
(* decoding of a completion.                                               *)
(*                                                                         *)
(* Text is modelled as a sequence of one-character strings, so that the    *)
(* regular expressions and string methods of the source are computed as    *)
(* the source computes them.  BQ stands for the backtick character.        *)
(***************************************************************************)
EXTENDS Integers, Sequences, FiniteSets, TLC

VARIABLES
  fs,          \* skill directory name -> its SKILL.md file ([exists, text])
  vmode,       \* validator under test: "none", "lint", "review", "llm"
  vresult,     \* what the validator returned (or threw)
  dirents,     \* the entries readdirSync returns for the skills directory
  args,        \* process.argv.slice(2)
  env,         \* process.env: which of the two settings are present
  pc,          \* where main() stands
  skills,      \* getSkills(), as held by main()
  idx,         \* the package the loop of all-skills mode is at
  passed,      \* counters of the all-skills loop
  failed,
  totalScore,
  result,      \* the validation result of the package being processed
  results,     \* every validation result produced so far, in order
  llmEvaluator,\* the cached judge module: loaded or not
  requests,    \* the HTTP requests sent: the package and the base URL, in order
  judged,      \* how each judge call ended, in order
  out,         \* what was printed, in order
  summary,     \* the closing summary, once printed
  exitCode,    \* the process exit status, -1 while running
  reply,       \* the body of a 200 response: its shape, its text, and the
               \* text that was laid out in it
  decoded,     \* what evaluateSkill made of it: a value returned or an error
  given,       \* the frontmatter and body evaluateSkill is called with
  prompt       \* the prompt it builds from them

vars == <<fs, vmode, vresult, dirents, args, env, pc, skills, idx, passed, failed,
          totalScore, result, results, llmEvaluator, requests, judged, out,
          summary, exitCode, reply, decoded, given, prompt>>

judgeVars == <<reply, decoded>>

promptVars == <<given, prompt>>

cliVars == <<dirents, args, env, pc, skills, idx, passed, failed, totalScore,
             result, results, llmEvaluator, requests, judged, out, summary,
             exitCode>>

-----------------------------------------------------------------------------
(* Characters and JavaScript string primitives *)

BQ == "bq"

Digit == {"0", "1", "2", "3", "4", "5", "6", "7", "8", "9"}

UpperToLower ==
  "A" :> "a" @@ "B" :> "b" @@ "C" :> "c" @@ "D" :> "d" @@ "E" :> "e" @@
  "F" :> "f" @@ "G" :> "g" @@ "H" :> "h" @@ "I" :> "i" @@ "J" :> "j" @@
  "K" :> "k" @@ "L" :> "l" @@ "M" :> "m" @@ "N" :> "n" @@ "O" :> "o" @@
  "P" :> "p" @@ "Q" :> "q" @@ "R" :> "r" @@ "S" :> "s" @@ "T" :> "t" @@
  "U" :> "u" @@ "V" :> "v" @@ "W" :> "w" @@ "X" :> "x" @@ "Y" :> "y" @@
  "Z" :> "z"

UpperLetter == DOMAIN UpperToLower

LowerLetter == {UpperToLower[c] : c \in UpperLetter}

\* \w of a JavaScript regular expression
WordChar == Digit \cup UpperLetter \cup LowerLetter \cup {"_"}

\* \s of a regular expression and the characters String.prototype.trim removes
WhiteSpace == {" ", "\t", "\n", "\r"}

\* the characters "." does not match and after which "^" matches under /m
LineTerminator == {"\n", "\r"}

MinOf(S) == CHOOSE x \in S : \A y \in S : x <= y

MaxOf(S) == CHOOSE x \in S : \A y \in S : y <= x

\* Math.max(a, b)
MathMax(a, b) == IF a >= b THEN a ELSE b

\* s.startsWith(p, i - 1): p occurs in s at (1-based) position i
StartsWithAt(s, p, i) ==
  /\ i >= 1
  /\ i + Len(p) - 1 <= Len(s)
  /\ \A k \in 1..Len(p) : s[i + k - 1] = p[k]

\* s.startsWith(p)
StartsWith(s, p) == StartsWithAt(s, p, 1)

\* s.endsWith(p)
EndsWith(s, p) == StartsWithAt(s, p, Len(s) - Len(p) + 1)

\* s.includes(p)
Includes(s, p) == \E i \in 1..(Len(s) + 1) : StartsWithAt(s, p, i)

\* s.toLowerCase()
ToLowerCase(s) ==
  [i \in 1..Len(s) |-> IF s[i] \in UpperLetter THEN UpperToLower[s[i]] ELSE s[i]]

\* s.trim()
Trim(s) ==
  LET solid(i) == s[i] \notin WhiteSpace
  IN IF \A i \in 1..Len(s) : ~solid(i) THEN <<>>
     ELSE SubSeq(s,
                 CHOOSE i \in 1..Len(s) :
                   solid(i) /\ \A j \in 1..(i - 1) : ~solid(j),
                 CHOOSE i \in 1..Len(s) :
                   solid(i) /\ \A j \in (i + 1)..Len(s) : ~solid(j))

\* s.slice(n): the text from (0-based) offset n on
SliceFrom(s, n) == SubSeq(s, n + 1, Len(s))

\* s.split(c) for a one-character separator c
Split(s, c) ==
  LET seps == {i \in 1..Len(s) : s[i] = c}
      \* the position of the k-th separator; 0 before the first, Len+1 after the last
      sep(k) == IF k = 0 THEN 0
                ELSE IF k > Cardinality(seps) THEN Len(s) + 1
                ELSE CHOOSE i \in seps : Cardinality({j \in seps : j <= i}) = k
  IN [k \in 1..(Cardinality(seps) + 1) |-> SubSeq(s, sep(k - 1) + 1, sep(k) - 1)]

\* s.split('\n').length
LineCount(s) == Cardinality({i \in 1..Len(s) : s[i] = "\n"}) + 1

\* a.join(sep) for an array of strings
RECURSIVE Join(_, _)
Join(a, sep) ==
  IF Len(a) = 0 THEN <<>>
  ELSE IF Len(a) = 1 THEN a[1]
  ELSE a[1] \o sep \o Join(Tail(a), sep)

\* JavaScript values a frontmatter field can hold
Str(s) == [t |-> "str", v |-> s]

Arr(a) == [t |-> "arr", v |-> a]

\* String(value): an array is joined with commas
jsString(val) == IF val.t = "arr" THEN Join(val.v, <<",">>) ELSE val.v

-----------------------------------------------------------------------------
(* Program constants *)

SKILLS_DIR == <<"s", "k", "i", "l", "l", "s">>

K_name == <<"n", "a", "m", "e">>

K_description == <<"d", "e", "s", "c", "r", "i", "p", "t", "i", "o", "n">>

K_version == <<"v", "e", "r", "s", "i", "o", "n">>

K_tags == <<"t", "a", "g", "s">>

K_author == <<"a", "u", "t", "h", "o", "r">>

REQUIRED_FIELDS == <<K_name, K_description, K_version, K_tags>>

RECOMMENDED_FIELDS == <<K_author>>

maxScore == 100

ErrorPenalty == 20

WarningPenalty == 5

MinBodyLines == 20

MaxFileLines == 500

MinDescriptionLength == 20

MaxDescriptionLength == 200

-----------------------------------------------------------------------------
(* parseSkillFile *)

\* mutant: the opening marker matched without its newline, /^---([\s\S]+?)\n---/
frontmatterMatch_openUnterminated(content) ==
  LET closers == {p \in 5..Len(content) : StartsWithAt(content, <<"\n", "-", "-", "-">>, p)}
  IN IF StartsWith(content, <<"-", "-", "-">>) /\ closers # {}
     THEN MinOf(closers) + 3
     ELSE 0

\* content.match(/^---\n([\s\S]+?)\n---/): the length of the match, 0 if none.
\* The lazy group takes the fewest characters (at least one) that let "\n---"
\* follow, so the match ends at the first "\n---" found from position 6 on.
frontmatterMatch(content) ==
  LET closers == {p \in 6..Len(content) : StartsWithAt(content, <<"\n", "-", "-", "-">>, p)}
  IN IF StartsWith(content, <<"-", "-", "-", "\n">>) /\ closers # {}
     THEN MinOf(closers) + 3
     ELSE 0

\* the position of the first colon of a line, 0 if it has none
firstColon(line) ==
  IF \E i \in 1..Len(line) : line[i] = ":"
  THEN MinOf({i \in 1..Len(line) : line[i] = ":"})
  ELSE 0

\* what \s*(.+) captures of the text after the colon: the text without its
\* leading white space; greedy \s* gives one character back when the text is
\* all white space
captured(rest) ==
  IF \A i \in 1..Len(rest) : rest[i] \in WhiteSpace
  THEN SubSeq(rest, Len(rest), Len(rest))
  ELSE SubSeq(rest, MinOf({i \in 1..Len(rest) : rest[i] \notin WhiteSpace}),
              Len(rest))

lineMatchAt(line, k, value) ==
  IF /\ k >= 2
     /\ \A i \in 1..(k - 1) : line[i] \in WordChar
     /\ Len(line) > k
     /\ \A i \in 1..Len(value) : value[i] \notin LineTerminator
  THEN [ok |-> TRUE, key |-> SubSeq(line, 1, k - 1), value |-> value]
  ELSE [ok |-> FALSE, key |-> <<>>, value |-> <<>>]

\* line.match(/^(\w+):\s*(.+)$/): [ok, key, value]
lineMatch(line) ==
  lineMatchAt(line, firstColon(line),
              captured(SubSeq(line, firstColon(line) + 1, Len(line))))

\* the value stored for a matched line
fieldValue(value) ==
  IF StartsWith(value, <<"[">>) /\ EndsWith(value, <<"]">>)
  THEN LET items == Split(SubSeq(value, 2, Len(value) - 1), ",")
       IN Arr([i \in 1..Len(items) |-> Trim(items[i])])
  ELSE Str(value)

\* the one key whose assignment creates no property of the object: it is
\* the prototype accessor inherited from Object.prototype
K_proto == <<"_", "_", "p", "r", "o", "t", "o", "_", "_">>

\* the fields object built by the loop over the matches of the frontmatter
\* lines: fields[key] = value makes key an own property, except for
\* __proto__, and a later line overwrites an earlier one with the same key
collectFields(matches) ==
  [k \in {matches[i].key : i \in {j \in 1..Len(matches) : matches[j].ok}}
         \ {K_proto} |->
     fieldValue(matches[MaxOf({i \in 1..Len(matches) :
                                 matches[i].ok /\ matches[i].key = k})].value)]

matchLines(lines) == [i \in 1..Len(lines) |-> lineMatch(lines[i])]

parseFields(frontmatter) == collectFields(matchLines(Split(frontmatter, "\n")))

\* the object returned once the frontmatter is matched
parseContent(content, matchLen) ==
  IF matchLen = 0
  THEN [error |-> <<"N", "o", " ", "Y", "A", "M", "L", " ", "f", "r", "o", "n", "t", "m", "a", "t", "t", "e", "r", " ", "f", "o", "u", "n", "d">>]
  ELSE [frontmatter |-> parseFields(SubSeq(content, 5, matchLen - 4)),
        body |-> Trim(SliceFrom(content, matchLen)),
        content |-> content]

parseSkillFile(file) ==
  IF ~file.exists
  THEN [error |-> <<"E", "N", "O", "E", "N", "T", ":", " ", "n", "o", " ", "s", "u", "c", "h", " ", "f", "i", "l", "e", " ", "o", "r", " ", "d", "i", "r", "e", "c", "t", "o", "r", "y">>]
  ELSE parseContent(file.text, frontmatterMatch(file.text))

isError(parsed) == "error" \in DOMAIN parsed

\* !frontmatter[field] is false: the key is present (a stored value is a
\* non-empty string or an array, both truthy)
hasField(frontmatter, field) == field \in DOMAIN frontmatter

-----------------------------------------------------------------------------
(* Regular expressions of the validators *)

\* /\d+\./.test(body)
reDigitsDot(body) ==
  \E i \in 1..(Len(body) - 1) : body[i] \in Digit /\ body[i + 1] = "."

\* /##?\s*(Step|Phase|Stage)/i.test(body)
reStepHeading(body) ==
  LET low == ToLowerCase(body)
      word(j) == \/ StartsWithAt(low, <<"s", "t", "e", "p">>, j)
                 \/ StartsWithAt(low, <<"p", "h", "a", "s", "e">>, j)
                 \/ StartsWithAt(low, <<"s", "t", "a", "g", "e">>, j)
  IN \E i \in 1..Len(body) :
       /\ body[i] = "#"
       /\ \E j \in (i + 1)..Len(body) :
            /\ word(j)
            /\ \A m \in (i + 1)..(j - 1) :
                 \/ body[m] \in WhiteSpace
                 \/ m = i + 1 /\ body[m] = "#" /\
                    \A n \in (m + 1)..(j - 1) : body[n] \in WhiteSpace

\* where ^ matches under the m flag
lineStart(s, i) == i = 1 \/ s[i - 1] \in LineTerminator

\* /^#{1,3}\s/m.test(body)
reHeading(body) ==
  \E i \in 1..Len(body) :
    /\ lineStart(body, i)
    /\ \E n \in 1..3 :
         /\ i + n <= Len(body)
         /\ \A k \in 0..(n - 1) : body[i + k] = "#"
         /\ body[i + n] \in WhiteSpace

\* /^\d+\./m.test(body)
reNumbered(body) ==
  \E i \in 1..Len(body) :
    /\ lineStart(body, i)
    /\ body[i] \in Digit
    /\ \E e \in i..(Len(body) - 1) :
         /\ \A k \in i..e : body[k] \in Digit
         /\ body[e + 1] = "."

\* /^\d+\.\d+\.\d+(-.*)?$/.test(s)
versionRegex(s) ==
  \E a \in 2..Len(s) : \E b \in (a + 2)..Len(s) : \E e \in (b + 1)..Len(s) :
    /\ s[a] = "." /\ s[b] = "."
    /\ \A k \in 1..(a - 1) : s[k] \in Digit
    /\ \A k \in (a + 1)..(b - 1) : s[k] \in Digit
    /\ \A k \in (b + 1)..e : s[k] \in Digit
    /\ \/ e = Len(s)
       \/ /\ s[e + 1] = "-"
          /\ \A k \in (e + 2)..Len(s) : s[k] \notin LineTerminator

\* desc.includes('use when') || desc.includes('triggers on'), desc lower-cased
hasTriggerHint(desc) ==
  LET low == ToLowerCase(desc)
  IN Includes(low, <<"u", "s", "e", " ", "w", "h", "e", "n">>) \/ Includes(low, <<"t", "r", "i", "g", "g", "e", "r", "s", " ", "o", "n">>)

\* body.includes('```') || body.toLowerCase().includes('example')
hasExamples(body) ==
  Includes(body, <<BQ, BQ, BQ>>) \/ Includes(ToLowerCase(body), <<"e", "x", "a", "m", "p", "l", "e">>)

-----------------------------------------------------------------------------
(* validateSkill: the lint / review validator.  A message is a pair of its *)
(* fixed text and the value interpolated into it (<<>> when none is, or    *)
(* when the value is a count that no check reads).                         *)

Opt(cond, item) == IF cond THEN <<item>> ELSE <<>>

TypeError == [exception |-> "TypeError"]

threw(r) == "exception" \in DOMAIN r

\* mutant: Math.min in place of Math.max
calculateScore_min(errors, warnings) ==
  LET score == maxScore - Len(errors) * ErrorPenalty - Len(warnings) * WarningPenalty
  IN IF score <= 0 THEN score ELSE 0

\* result.score = Math.max(0, maxScore - errors*20 - warnings*5)
calculateScore(errors, warnings) ==
  MathMax(0, maxScore - Len(errors) * ErrorPenalty - Len(warnings) * WarningPenalty)

\* mutant: review mode without the check for a step-by-step structure
contentWarnings_noSteps(frontmatter, body) ==
  Opt(~hasExamples(body), <<"No code examples detected", <<>>>>)
  \o Opt(hasField(frontmatter, K_description)
           /\ ~hasTriggerHint(frontmatter[K_description].v),
         <<"Description missing trigger hint", <<>>>>)
  \o Opt(LineCount(body) < MinBodyLines, <<"SKILL.md body is short", <<>>>>)

\* the content quality checks of review mode, in the order they are pushed;
\* calling toLowerCase on an array-valued description throws
contentWarnings(frontmatter, body) ==
  Opt(~hasExamples(body), <<"No code examples detected", <<>>>>)
  \o Opt(~(reDigitsDot(body) \/ reStepHeading(body)),
         <<"No clear step-by-step structure detected", <<>>>>)
  \o Opt(hasField(frontmatter, K_description)
           /\ ~hasTriggerHint(frontmatter[K_description].v),
         <<"Description missing trigger hint", <<>>>>)
  \o Opt(LineCount(body) < MinBodyLines, <<"SKILL.md body is short", <<>>>>)

\* mutant: a missing required field is reported twice
requiredErrors_twice(frontmatter) ==
  LET missing == SelectSeq(REQUIRED_FIELDS, LAMBDA f : ~hasField(frontmatter, f))
  IN [i \in 1..(2 * Len(missing)) |->
        <<"Missing required field: ", missing[(i + 1) \div 2]>>]

\* the errors of the required-field loop
requiredErrors(frontmatter) ==
  LET missing == SelectSeq(REQUIRED_FIELDS, LAMBDA f : ~hasField(frontmatter, f))
  IN [i \in 1..Len(missing) |-> <<"Missing required field: ", missing[i]>>]

\* the warnings of the recommended-field loop
recommendedWarnings(frontmatter) ==
  LET missing == SelectSeq(RECOMMENDED_FIELDS, LAMBDA f : ~hasField(frontmatter, f))
  IN [i \in 1..Len(missing) |-> <<"Missing recommended field: ", missing[i]>>]

\* the result returned at the end of validateSkill
scored(skillName, errors, warnings) ==
  [skill |-> skillName,
   passed |-> Len(errors) = 0,
   warnings |-> warnings,
   errors |-> errors,
   score |-> calculateScore(errors, warnings)]

\* validateSkill from the parse on
validateParsed(skillName, parsed, verbose) ==
  IF isError(parsed)
  THEN [skill |-> skillName, passed |-> FALSE, warnings |-> <<>>,
        errors |-> <<<<"Failed to parse: ", parsed.error>>>>, score |-> 0]
  ELSE IF /\ verbose
          /\ hasField(parsed.frontmatter, K_description)
          /\ parsed.frontmatter[K_description].t = "arr"
       THEN TypeError
       ELSE scored(skillName,
                   requiredErrors(parsed.frontmatter),
                   recommendedWarnings(parsed.frontmatter)
                   \o (IF verbose
                       THEN contentWarnings(parsed.frontmatter, parsed.body)
                       ELSE <<>>))

\* mutant: the content quality checks run in every mode
validateSkill_alwaysVerbose(files, skillName, verbose) ==
  IF ~files[skillName].exists
  THEN [skill |-> skillName, passed |-> FALSE, warnings |-> <<>>,
        errors |-> <<<<"SKILL.md not found", <<>>>>>>, score |-> 0]
  ELSE validateParsed(skillName, parseSkillFile(files[skillName]), TRUE)

validateSkill(files, skillName, verbose) ==
  IF ~files[skillName].exists
  THEN [skill |-> skillName, passed |-> FALSE, warnings |-> <<>>,
        errors |-> <<<<"SKILL.md not found", <<>>>>>>, score |-> 0]
  ELSE validateParsed(skillName, parseSkillFile(files[skillName]), verbose)

-----------------------------------------------------------------------------
(* validateSkillDetailed: the validator of llm mode.  Each step pushes one *)
(* check and, at the sites where the source does, takes 5 off overallScore.*)

step(name, status, message, penalty) ==
  [name |-> name, status |-> status, message |-> message, penalty |-> penalty,
   clear |-> FALSE]

\* a failed check, after which the source sets passed = false
failStep(name, message) ==
  [name |-> name, status |-> "fail", message |-> message, penalty |-> 0,
   clear |-> TRUE]

RECURSIVE sumPenalty(_)
sumPenalty(steps) ==
  IF Len(steps) = 0 THEN 0 ELSE Head(steps).penalty + sumPenalty(Tail(steps))

lineCountStep(content) ==
  IF LineCount(content) <= MaxFileLines
  THEN step(<<"s", "k", "i", "l", "l", "_", "m", "d", "_", "l", "i", "n", "e", "_", "c", "o", "u", "n", "t">>, "pass", "SKILL.md line count is (<= 500)", 0)
  ELSE failStep(<<"s", "k", "i", "l", "l", "_", "m", "d", "_", "l", "i", "n", "e", "_", "c", "o", "u", "n", "t">>, "SKILL.md line count is (> 500)")

requiredStep(frontmatter, field) ==
  IF hasField(frontmatter, field)
  THEN step(field \o <<"_", "f", "i", "e", "l", "d">>, "pass", "field is valid", 0)
  ELSE failStep(field \o <<"_", "f", "i", "e", "l", "d">>, "Missing required field")

recommendedStep(frontmatter, field) ==
  IF hasField(frontmatter, field)
  THEN step(field \o <<"_", "f", "i", "e", "l", "d">>, "pass", "field is present", 0)
  ELSE step(field \o <<"_", "f", "i", "e", "l", "d">>, "warn", "Missing recommended field", WarningPenalty)

tagsSteps(frontmatter) ==
  IF ~hasField(frontmatter, K_tags) THEN <<>>
  ELSE IF frontmatter[K_tags].t = "arr" /\ Len(frontmatter[K_tags].v) > 0
       THEN <<step(<<"t", "a", "g", "s", "_", "f", "o", "r", "m", "a", "t">>, "pass", "Tags array has items", 0)>>
       ELSE <<step(<<"t", "a", "g", "s", "_", "f", "o", "r", "m", "a", "t">>, "warn", "Tags should be a non-empty array",
                   WarningPenalty)>>

versionSteps(frontmatter) ==
  IF ~hasField(frontmatter, K_version) THEN <<>>
  ELSE IF versionRegex(jsString(frontmatter[K_version]))
       THEN <<step(<<"v", "e", "r", "s", "i", "o", "n", "_", "f", "o", "r", "m", "a", "t">>, "pass", "Version follows semver", 0)>>
       ELSE <<step(<<"v", "e", "r", "s", "i", "o", "n", "_", "f", "o", "r", "m", "a", "t">>, "warn", "Version doesn't follow semver",
                   WarningPenalty)>>

\* reached only for a string-valued description
descriptionSteps(frontmatter) ==
  IF ~hasField(frontmatter, K_description) THEN <<>>
  ELSE LET desc == frontmatter[K_description].v
       IN <<IF Len(desc) >= MinDescriptionLength /\ Len(desc) <= MaxDescriptionLength
            THEN step(<<"d", "e", "s", "c", "r", "i", "p", "t", "i", "o", "n", "_", "l", "e", "n", "g", "t", "h">>, "pass", "Description length is", 0)
            ELSE step(<<"d", "e", "s", "c", "r", "i", "p", "t", "i", "o", "n", "_", "l", "e", "n", "g", "t", "h">>, "warn",
                      "Description length is (should be 20-200)", WarningPenalty),
            IF hasTriggerHint(desc)
            THEN step(<<"d", "e", "s", "c", "r", "i", "p", "t", "i", "o", "n", "_", "t", "r", "i", "g", "g", "e", "r", "_", "h", "i", "n", "t">>, "pass",
                      "Description includes trigger hint", 0)
            ELSE step(<<"d", "e", "s", "c", "r", "i", "p", "t", "i", "o", "n", "_", "t", "r", "i", "g", "g", "e", "r", "_", "h", "i", "n", "t">>, "warn",
                      "Description missing trigger hint", WarningPenalty)>>

bodySteps(body) ==
  IF Len(body) = 0 THEN <<>>
  ELSE <<IF LineCount(body) >= MinBodyLines
         THEN step(<<"b", "o", "d", "y", "_", "l", "e", "n", "g", "t", "h">>, "pass", "Body has lines (>= 20)", 0)
         ELSE step(<<"b", "o", "d", "y", "_", "l", "e", "n", "g", "t", "h">>, "warn", "Body is short", WarningPenalty),
         IF hasExamples(body)
         THEN step(<<"h", "a", "s", "_", "e", "x", "a", "m", "p", "l", "e", "s">>, "pass", "Content includes code examples", 0)
         ELSE step(<<"h", "a", "s", "_", "e", "x", "a", "m", "p", "l", "e", "s">>, "warn", "No code examples detected",
                   WarningPenalty),
         IF reHeading(body) \/ reNumbered(body)
         THEN step(<<"h", "a", "s", "_", "s", "t", "r", "u", "c", "t", "u", "r", "e">>, "pass", "Content has clear structure", 0)
         ELSE step(<<"h", "a", "s", "_", "s", "t", "r", "u", "c", "t", "u", "r", "e">>, "warn", "No clear structure detected",
                   WarningPenalty)>>

check(s) == [name |-> s.name, status |-> s.status, message |-> s.message]

\* the checks in the order the source pushes them
detailedSteps(parsed) ==
  <<lineCountStep(parsed.content),
    step(<<"f", "r", "o", "n", "t", "m", "a", "t", "t", "e", "r", "_", "v", "a", "l", "i", "d">>, "pass", "YAML frontmatter is valid", 0)>>
  \o [i \in 1..Len(REQUIRED_FIELDS) |->
        requiredStep(parsed.frontmatter, REQUIRED_FIELDS[i])]
  \o [i \in 1..Len(RECOMMENDED_FIELDS) |->
        recommendedStep(parsed.frontmatter, RECOMMENDED_FIELDS[i])]
  \o tagsSteps(parsed.frontmatter)
  \o versionSteps(parsed.frontmatter)
  \o descriptionSteps(parsed.frontmatter)
  \o bodySteps(parsed.body)

\* the result returned at the end of validateSkillDetailed
detailed(skillName, parsed, steps) ==
  [skill |-> skillName,
   passed |-> \A i \in 1..Len(steps) : ~steps[i].clear,
   checks |-> [i \in 1..Len(steps) |-> check(steps[i])],
   score |-> MathMax(0, maxScore - sumPenalty(steps)),
   frontmatter |-> parsed.frontmatter,
   body |-> parsed.body]

\* validateSkillDetailed from the parse on; toLowerCase of an array-valued
\* description throws
detailedParsed(skillName, parsed) ==
  IF isError(parsed)
  THEN [skill |-> skillName, passed |-> FALSE,
        checks |-> <<[name |-> <<"p", "a", "r", "s", "e", "_", "e", "r", "r", "o", "r">>, status |-> "error",
                      message |-> "Failed to parse"]>>]
  ELSE IF /\ hasField(parsed.frontmatter, K_description)
          /\ parsed.frontmatter[K_description].t = "arr"
       THEN TypeError
       ELSE detailed(skillName, parsed, detailedSteps(parsed))

validateSkillDetailed(files, skillName) ==
  IF ~files[skillName].exists
  THEN [skill |-> skillName, passed |-> FALSE,
        checks |-> <<[name |-> <<"s", "k", "i", "l", "l", "_", "m", "d", "_", "e", "x", "i", "s", "t", "s">>, status |-> "error",
                      message |-> "SKILL.md not found"]>>]
  ELSE detailedParsed(skillName, parseSkillFile(files[skillName]))

-----------------------------------------------------------------------------
(* The documents the validators are run on *)

\* largest length of the exhaustively enumerated short documents
MaxRawLen == 9

RawAlphabet == {"-", "\n", "a"}

RawTexts == UNION {[1..n -> RawAlphabet] : n \in 0..MaxRawLen}

\* n lines "text", each preceded by a newline
Filler(n) ==
  [i \in 1..(5 * n) |-> IF i % 5 = 1 THEN "\n" ELSE <<"t", "e", "x", "t">>[(i - 1) % 5]]

\* a body of n lines that starts with the lines of head
mkBody(head, n) == Join(head, <<"\n">>) \o Filler(n - Len(head))

FullHead == <<<<"#", " ", "T", "i", "t", "l", "e">>, <<BQ, BQ, BQ>>, <<"c", "o", "d", "e">>, <<BQ, BQ, BQ>>, <<"1", ".", " ", "f", "i", "r", "s", "t", " ", "s", "t", "e", "p">>>>

Bodies ==
  { <<>>,
    <<"s", "h", "o", "r", "t", " ", "t", "e", "x", "t">>,
    mkBody(FullHead, 25),
    mkBody(<<<<BQ, BQ, BQ>>, <<"c", "o", "d", "e">>, <<BQ, BQ, BQ>>>>, 25),
    mkBody(<<<<"t", "e", "x", "t">>>>, 19),
    mkBody(<<<<"#", "#", " ", "S", "t", "e", "p", " ", "o", "n", "e">>, <<"A", "n", " ", "E", "x", "a", "m", "p", "l", "e", " ", "f", "o", "l", "l", "o", "w", "s">>>>, 20),
    mkBody(FullHead, 491),
    mkBody(FullHead, 493) }

NameLines == { <<>>, <<"n", "a", "m", "e", ":", " ", "x">> }

DescriptionLines ==
  { <<>>,
    <<"d", "e", "s", "c", "r", "i", "p", "t", "i", "o", "n", ":", " ", "U", "s", "e", " ", "w", "h", "e", "n", " ", "t", "e", "s", "t", "i", "n", "g">>,
    <<"d", "e", "s", "c", "r", "i", "p", "t", "i", "o", "n", ":", " ", "U", "s", "e", " ", "w", "h", "e", "n", " ", "t", "e", "s", "t", "i", "n", "g", " ", "t", "h", "e", " ", "s", "k", "i", "l", "l", "s">>,
    <<"d", "e", "s", "c", "r", "i", "p", "t", "i", "o", "n", ":", " ", "A", " ", "s", "k", "i", "l", "l", " ", "f", "o", "r", " ", "t", "h", "i", "n", "g", "s", " ", "i", "n", " ", "g", "e", "n", "e", "r", "a", "l">>,
    <<"d", "e", "s", "c", "r", "i", "p", "t", "i", "o", "n", ":", " ", "[", "a", ",", " ", "b", "]">>,
    <<"d", "e", "s", "c", "r", "i", "p", "t", "i", "o", "n", ":", " ", "T", "r", "i", "g", "g", "e", "r", "s", " ", "o", "n", " ">> \o [i \in 1..200 |-> "x"] }

VersionLines == { <<>>, <<"v", "e", "r", "s", "i", "o", "n", ":", " ", "1", ".", "0", ".", "0">>, <<"v", "e", "r", "s", "i", "o", "n", ":", " ", "v", "1">> }

TagsLines == { <<>>, <<"t", "a", "g", "s", ":", " ", "[", "a", ",", "b", "]">>, <<"t", "a", "g", "s", ":", " ", "x">> }

AuthorLines == { <<>>, <<"a", "u", "t", "h", "o", "r", ":", " ", "m", "e">> }

\* a document: the marker line, the header lines present, the marker line,
\* and the body after a blank line
mkText(headerLines, body) ==
  <<"-", "-", "-", "\n">>
  \o Join(SelectSeq(headerLines, LAMBDA l : Len(l) > 0), <<"\n">>)
  \o <<"\n", "-", "-", "-">>
  \o (IF Len(body) = 0 THEN <<>> ELSE <<"\n", "\n">> \o body \o <<"\n">>)

BuiltTexts ==
  { mkText(<<n, d, a, v, t>>, b) :
      n \in NameLines, d \in DescriptionLines, a \in AuthorLines,
      v \in VersionLines, t \in TagsLines, b \in Bodies }

NoFile == [exists |-> FALSE, text |-> <<>>]

File(text) == [exists |-> TRUE, text |-> text]

Files == {NoFile} \cup {File(t) : t \in RawTexts \cup BuiltTexts}

-----------------------------------------------------------------------------
(* The validators applied to one document *)

SkillA == <<"a">>

NoResult == [pending |-> TRUE]

\* no response of the endpoint is being decoded
NoReply == [shape |-> "none", layout |-> "none", carried |-> <<>>, text |-> <<>>]

judgeIdle == reply = NoReply /\ decoded = NoResult

\* evaluateSkill has not been given a document
promptIdle == given = NoResult /\ prompt = NoResult

Num(n) == [nan |-> FALSE, val |-> n]

NaN == [nan |-> TRUE, val |-> 0]

\* the dispatcher at rest: main() not entered
cliIdle ==
  /\ dirents = <<>>
  /\ args = <<>>
  /\ env = [LLM_API_KEY |-> FALSE, OPEN_AI_LLM_URL |-> FALSE]
  /\ pc = "idle"
  /\ skills = <<>>
  /\ idx = 0
  /\ passed = 0
  /\ failed = 0
  /\ totalScore = Num(0)
  /\ result = NoResult
  /\ results = <<>>
  /\ llmEvaluator = FALSE
  /\ requests = <<>>
  /\ judged = <<>>
  /\ out = <<>>
  /\ summary = [printed |-> FALSE]
  /\ exitCode = -1

InitV ==
  /\ fs \in [{SkillA} -> Files]
  /\ vmode = "none"
  /\ vresult = NoResult
  /\ cliIdle
  /\ judgeIdle
  /\ promptIdle

RunLint ==
  /\ vmode = "none"
  /\ vmode' = "lint"
  /\ vresult' = validateSkill(fs, SkillA, FALSE)
  /\ UNCHANGED <<fs, cliVars, judgeVars, promptVars>>

RunReview ==
  /\ vmode = "none"
  /\ vmode' = "review"
  /\ vresult' = validateSkill(fs, SkillA, TRUE)
  /\ UNCHANGED <<fs, cliVars, judgeVars, promptVars>>

RunDetailed ==
  /\ vmode = "none"
  /\ vmode' = "llm"
  /\ vresult' = validateSkillDetailed(fs, SkillA)
  /\ UNCHANGED <<fs, cliVars, judgeVars, promptVars>>

NextV == RunLint \/ RunReview \/ RunDetailed

SpecV == InitV /\ [][NextV]_vars

-----------------------------------------------------------------------------
(* parseSkillFile applied to documents with one or two header lines *)

HeaderLines ==
  { <<"n", "a", "m", "e", ":", " ", "x">>, <<"n", "a", "m", "e", ":", "y">>, <<"t", "a", "g", "s", ":", " ", "[", "a", ",", " ", "b", " ", ",", "c", "]">>, <<"t", "a", "g", "s", ":", " ", "[", "]">>, <<"t", "a", "g", "s", ":", " ", "[", "a">>,
    <<"u", "r", "l", ":", " ", "h", "t", "t", "p", ":", "/", "/", "a">>, <<"s", "p", "a", "c", "e", "s", ":", " ", " ", " ">>, <<"n", "o", "v", "a", "l", "u", "e", ":">>, <<"a", "l", "l", "o", "w", "e", "d", "-", "t", "o", "o", "l", "s", ":", " ", "x">>,
    <<" ", " ", "i", "n", "d", "e", "n", "t", "e", "d", ":", " ", "x">>, <<"#", " ", "c", "o", "m", "m", "e", "n", "t">>, <<"_", "_", "p", "r", "o", "t", "o", "_", "_", ":", " ", "x">>, <<"a", "u", "t", "h", "o", "r", ":", " ", "m", "e", "\r">> }

\* a document with the given header lines and a one-line body
headerDoc(headerLines) == <<"-", "-", "-", "\n">> \o Join(headerLines, <<"\n">>) \o <<"\n", "-", "-", "-", "\n", "\n", "t", "e", "x", "t", "\n">>

HeaderFiles ==
  {File(headerDoc(<<l>>)) : l \in HeaderLines}
  \cup {File(headerDoc(<<l, m>>)) : l \in HeaderLines, m \in HeaderLines}

InitH ==
  /\ fs \in [{SkillA} -> HeaderFiles]
  /\ vmode = "none"
  /\ vresult = NoResult
  /\ cliIdle
  /\ judgeIdle
  /\ promptIdle

ParseHeader ==
  /\ vmode = "none"
  /\ vmode' = "parse"
  /\ vresult' = parseSkillFile(fs[SkillA])
  /\ UNCHANGED <<fs, cliVars, judgeVars, promptVars>>

NextH == ParseHeader

SpecH == InitH /\ [][NextH]_vars

-----------------------------------------------------------------------------
(* getSkills: the non-hidden directories of the skills directory, sorted *)

\* the characters of names in UTF-16 code unit order
CodeOrder ==
  <<"-", ".", "0", "1", "2", "3", "4", "5", "6", "7", "8", "9", "A", "B", "C", "D", "E", "F", "G", "H", "I", "J", "K", "L", "M", "N", "O", "P", "Q", "R", "S", "T", "U", "V", "W", "X", "Y", "Z", "_", "a", "b", "c", "d", "e", "f", "g", "h", "i", "j", "k", "l", "m", "n", "o", "p", "q", "r", "s", "t", "u", "v", "w", "x", "y", "z">>

charCode(c) == CHOOSE i \in 1..Len(CodeOrder) : CodeOrder[i] = c

\* a sorts before b under Array.prototype.sort() without a comparator
sortsBefore(a, b) ==
  \E k \in 0..Len(a) :
    /\ k <= Len(b)
    /\ \A i \in 1..k : a[i] = b[i]
    /\ \/ k = Len(a) /\ k < Len(b)
       \/ k < Len(a) /\ k < Len(b) /\ charCode(a[k + 1]) < charCode(b[k + 1])

RECURSIVE insertSorted(_, _)
insertSorted(x, sorted) ==
  IF Len(sorted) = 0 THEN <<x>>
  ELSE IF sortsBefore(Head(sorted), x)
       THEN <<Head(sorted)>> \o insertSorted(x, Tail(sorted))
       ELSE <<x>> \o sorted

RECURSIVE sort(_)
sort(a) == IF Len(a) = 0 THEN <<>> ELSE insertSorted(Head(a), sort(Tail(a)))

\* mutant: getSkills without its sort()
getSkills_unsorted(dirs) ==
  LET kept == SelectSeq(dirs, LAMBDA d : d.isDirectory /\ ~StartsWith(d.name, <<".">>))
  IN [i \in 1..Len(kept) |-> kept[i].name]

getSkills(dirs) ==
  LET kept == SelectSeq(dirs, LAMBDA d : d.isDirectory /\ ~StartsWith(d.name, <<".">>))
  IN sort([i \in 1..Len(kept) |-> kept[i].name])

\* skills.includes(name), args.includes(word)
includes(a, x) == \E i \in 1..Len(a) : a[i] = x

-----------------------------------------------------------------------------
(* The judge: llm-evaluator.mjs.  The completion text is kept abstract: it *)
(* is named by what JSON.parse makes of it once the fences are stripped.   *)

\* what fetch can settle with
Responses ==
  { [kind |-> "reject",  status |-> 0,   body |-> "none"],
    [kind |-> "http",    status |-> 401, body |-> "none"],
    [kind |-> "http",    status |-> 500, body |-> "none"],
    [kind |-> "http",    status |-> 200, body |-> "not json"],
    [kind |-> "http",    status |-> 200, body |-> "no known field"],
    [kind |-> "http",    status |-> 200, body |-> "evaluation"],
    [kind |-> "http",    status |-> 200, body |-> "null"],
    [kind |-> "http",    status |-> 200, body |-> "garbage"] }

returns(value) == [threw |-> FALSE, value |-> value, error |-> "none"]

throws(error) == [threw |-> TRUE, value |-> "none", error |-> error]

\* callLLM: the completion text, or the error thrown
callLLM(response) ==
  IF response.kind = "reject" THEN throws("TypeError: fetch failed")
  ELSE IF response.status = 401 THEN throws("Invalid LLM_API_KEY")
  ELSE IF response.status # 200 THEN throws("API request failed")
  ELSE IF response.body = "not json" THEN throws("SyntaxError")
  ELSE IF response.body = "no known field"
       THEN throws("Unexpected API response format")
  ELSE returns(response.body)

\* evaluateSkill: the parsed evaluation, or the error thrown; a SyntaxError is
\* rethrown as "Failed to parse LLM response as JSON"
evaluateSkill(response) ==
  LET content == callLLM(response)
  IN IF content.threw
     THEN IF content.error = "SyntaxError"
          THEN throws("Failed to parse LLM response as JSON")
          ELSE content
     ELSE IF content.value = "garbage"
          THEN throws("Failed to parse LLM response as JSON")
          ELSE returns(content.value)

\* formatEvaluation: reading a field of null throws
formatEvaluation(evaluation) ==
  IF evaluation = "null" THEN throws("TypeError") ELSE returns("Judge Evaluation")

\* mutant: evaluateWithLLM without its try/catch
evaluateWithLLM_uncaught(response) ==
  LET evaluation == evaluateSkill(response)
  IN IF evaluation.threw THEN evaluation
     ELSE IF formatEvaluation(evaluation.value).threw
          THEN formatEvaluation(evaluation.value)
          ELSE [threw |-> FALSE, value |-> evaluation.value, error |-> "none",
                printed |-> "Judge Evaluation", logged |-> <<>>]

\* what callLLM itself prints before it throws: the response data it does
\* not recognise
logged(response) ==
  IF response.kind = "http" /\ response.status = 200
     /\ response.body = "no known field"
  THEN <<"Unexpected API response format:">>
  ELSE <<>>

\* evaluateWithLLM, from the response on: whatever evaluateSkill or
\* formatEvaluation throws is caught, reported, and null is returned
evaluateWithLLM(response) ==
  LET evaluation == evaluateSkill(response)
  IN IF evaluation.threw \/ formatEvaluation(evaluation.value).threw
     THEN [threw |-> FALSE, value |-> "null", error |-> "none",
           printed |-> "LLM evaluation failed", logged |-> logged(response)]
     ELSE [threw |-> FALSE, value |-> evaluation.value, error |-> "none",
           printed |-> "Judge Evaluation", logged |-> <<>>]

-----------------------------------------------------------------------------
(* The judge's decoding of a completion, computed on its text.  An         *)
(* evaluation object is written {name}: the one element name stands for    *)
(* the members of the object, which no step of the decoding looks into.    *)

category(criteria, score) == [criteria |-> criteria, score |-> score]

\* the evaluation objects a completion may hold, by name
Evaluations ==
  [perfect |->
     [description |-> category(<<3, 3, 3, 3>>, 100),
      content |-> category(<<3, 3, 3, 3>>, 100),
      structure |-> category(<<3, 3, 3, 3>>, 100),
      overall_score |-> 100],
   mixed |->
     [description |-> category(<<3, 2, 2, 2>>, 75),
      content |-> category(<<2, 2, 1, 1>>, 50),
      structure |-> category(<<3, 3, 3, 3>>, 100),
      overall_score |-> 75],
   criterion_out_of_range |->
     [description |-> category(<<5, 3, 3, 3>>, 100),
      content |-> category(<<3, 3, 3, 3>>, 100),
      structure |-> category(<<3, 3, 3, 3>>, 100),
      overall_score |-> 100],
   wrong_category_score |->
     [description |-> category(<<1, 1, 1, 1>>, 100),
      content |-> category(<<3, 3, 3, 3>>, 100),
      structure |-> category(<<3, 3, 3, 3>>, 100),
      overall_score |-> 100],
   wrong_overall_score |->
     [description |-> category(<<3, 3, 3, 3>>, 100),
      content |-> category(<<3, 3, 3, 3>>, 100),
      structure |-> category(<<3, 3, 3, 3>>, 100),
      overall_score |-> 40]]

\* the JSON text of an evaluation object, on one line and pretty-printed
compact(name) == <<"{", name, "}">>

pretty(name) == <<"{", "\n", " ", " ", name, "\n", "}">>

\* the JSON texts the model knows
JsonTexts ==
  {compact(name) : name \in DOMAIN Evaluations}
  \cup {pretty("perfect"), pretty("mixed")}
  \cup {<<"{", "}">>, <<"n", "u", "l", "l">>, <<"1">>, <<"[", "]">>}

\* the value a JSON text denotes: the name of the evaluation object, or the
\* text itself for the other values
jsonValue(squeezed) ==
  IF Len(squeezed) = 3 /\ squeezed[2] \in DOMAIN Evaluations THEN squeezed[2]
  ELSE IF squeezed = <<"{", "}">> THEN "{}"
  ELSE IF squeezed = <<"n", "u", "l", "l">> THEN "null"
  ELSE IF squeezed = <<"1">> THEN "1"
  ELSE "[]"

\* JSON.parse(text): white space around the value is skipped
JSONparse(text) ==
  IF Trim(text) \in JsonTexts
  THEN returns(jsonValue(SelectSeq(text, LAMBDA ch : ch \notin WhiteSpace)))
  ELSE throws("SyntaxError")

\* callLLM, from the body data of a 200 response on: the completion text
messageContent(data) ==
  IF data.shape = "choices"
  THEN returns(IF Len(data.text) = 0 THEN <<"{", "}">> ELSE data.text)
  ELSE IF data.shape \in {"content", "response"} /\ Len(data.text) > 0
  THEN returns(data.text)
  ELSE throws("Unexpected API response format")

\* lines.pop() when the last line holds a fence, then join and trim; reading
\* the last line of no lines throws
popFence(lines) ==
  IF Len(lines) = 0 THEN throws("TypeError")
  ELSE returns(Trim(Join(IF Includes(lines[Len(lines)], <<BQ, BQ, BQ>>)
                         THEN SubSeq(lines, 1, Len(lines) - 1)
                         ELSE lines,
                         <<"\n">>)))

\* lines.shift() when the first line holds a fence
shiftFence(lines) ==
  popFence(IF Includes(lines[1], <<BQ, BQ, BQ>>) THEN Tail(lines) ELSE lines)

\* the markdown code block markers are removed if the text starts with one
stripFence(jsonStr) ==
  IF StartsWith(jsonStr, <<BQ, BQ, BQ>>)
  THEN shiftFence(Split(jsonStr, "\n"))
  ELSE returns(jsonStr)

\* the "json" label is removed if the text starts with it
stripLabel(jsonStr) ==
  IF StartsWith(ToLowerCase(jsonStr), <<"j", "s", "o", "n">>)
  THEN Trim(SliceFrom(jsonStr, 4))
  ELSE jsonStr

parseStripped(stripped) ==
  IF stripped.threw THEN stripped ELSE JSONparse(stripLabel(stripped.value))

\* the catch of evaluateSkill: a SyntaxError is rethrown under another
\* message, any other error as it is
rethrown(r) ==
  IF r.threw /\ r.error = "SyntaxError"
  THEN throws("Failed to parse LLM response as JSON")
  ELSE r

decodeContent(content) ==
  IF content.threw THEN content
  ELSE parseStripped(stripFence(Trim(content.value)))

\* evaluateSkill, from the body data of a 200 response on
evaluateSkillOf(data) == rethrown(decodeContent(messageContent(data)))

\* how a completion lays out the text it carries
Layouts ==
  {"bare", "fence lines", "json fence lines", "label line", "padded",
   "one line", "json one line", "closing fence on the last line"}

wrap(layout, text) ==
  IF layout = "bare" THEN text
  ELSE IF layout = "fence lines" THEN <<BQ, BQ, BQ, "\n">> \o text \o <<"\n", BQ, BQ, BQ>>
  ELSE IF layout = "json fence lines" THEN <<BQ, BQ, BQ, "j", "s", "o", "n", "\n">> \o text \o <<"\n", BQ, BQ, BQ>>
  ELSE IF layout = "label line" THEN <<BQ, BQ, BQ, "\n", "j", "s", "o", "n", "\n">> \o text \o <<"\n", BQ, BQ, BQ>>
  ELSE IF layout = "padded" THEN <<"\n", " ", BQ, BQ, BQ, "j", "s", "o", "n", "\n">> \o text \o <<"\n", BQ, BQ, BQ, "\n">>
  ELSE IF layout = "one line" THEN <<BQ, BQ, BQ>> \o text \o <<BQ, BQ, BQ>>
  ELSE IF layout = "json one line" THEN <<BQ, BQ, BQ, "j", "s", "o", "n", " ">> \o text \o <<" ", BQ, BQ, BQ>>
  ELSE <<BQ, BQ, BQ, "\n">> \o text \o <<BQ, BQ, BQ>>

\* texts that are no JSON text, the empty (or missing) text among them
OtherTexts == {<<>>, <<"n", "o", "t", " ", "j", "s", "o", "n">>, <<"j", "s", "o", "n">>, <<"{">>, <<"S", "u", "r", "e", "!", " ", "{", "}">>}

Shapes == {"choices", "content", "response", "none"}

\* the response bodies evaluateSkill is run on
Replies ==
  {[shape |-> sh, layout |-> l, carried |-> t, text |-> wrap(l, t)] :
     sh \in Shapes, l \in Layouts, t \in JsonTexts \cup OtherTexts}

InitJ ==
  /\ fs = <<>>
  /\ vmode = "none"
  /\ vresult = NoResult
  /\ cliIdle
  /\ reply \in Replies
  /\ decoded = NoResult
  /\ promptIdle

EvaluateSkill ==
  /\ reply # NoReply
  /\ decoded = NoResult
  /\ decoded' = evaluateSkillOf(reply)
  /\ UNCHANGED <<fs, vmode, vresult, cliVars, reply, promptVars>>

NextJ == EvaluateSkill

SpecJ == InitJ /\ [][NextJ]_vars

-----------------------------------------------------------------------------
(* The judge's prompt: the first statement of evaluateSkill *)

\* the part of the template after the {body} line, which holds none of the
\* six patterns: one element stands for it
PromptRest == <<"Evaluate on scale of 1-3 ... Respond ONLY with valid JSON ...">>

EVALUATION_PROMPT ==
  <<"A", "n", "a", "l", "y", "z", "e", " ", "t", "h", "i", "s", " ", "A", "g", "e", "n", "t", " ", "S", "k", "i", "l", "l", " ", "f", "o", "r", " ", "q", "u", "a", "l", "i", "t", "y", ":", "\n", "\n", "N", "a", "m", "e", ":", " ", "{", "n", "a", "m", "e", "}", "\n", "D", "e", "s", "c", "r", "i", "p", "t", "i", "o", "n", ":", " ", "{", "d", "e", "s", "c", "r", "i", "p", "t", "i", "o", "n", "}", "\n", "T", "a", "g", "s", ":", " ", "{", "t", "a", "g", "s", "}", "\n", "A", "u", "t", "h", "o", "r", ":", " ", "{", "a", "u", "t", "h", "o", "r", "}", "\n", "V", "e", "r", "s", "i", "o", "n", ":", " ", "{", "v", "e", "r", "s", "i", "o", "n", "}", "\n", "\n", "C", "o", "n", "t", "e", "n", "t", ":", "\n", "{", "b", "o", "d", "y", "}", "\n", "\n">>
  \o PromptRest

\* GetSubstitution for a string pattern: in the replacement text $$ stands
\* for $, $& for the matched text, $ and a backtick for the text before the
\* match, $' for the text after it
RECURSIVE substitution(_, _, _, _)
substitution(r, matched, before, after) ==
  IF Len(r) = 0 THEN <<>>
  ELSE IF r[1] = "$" /\ Len(r) >= 2 /\ r[2] \in {"$", "&", BQ, "'"}
       THEN (IF r[2] = "$" THEN <<"$">>
             ELSE IF r[2] = "&" THEN matched
             ELSE IF r[2] = BQ THEN before
             ELSE after)
            \o substitution(SubSeq(r, 3, Len(r)), matched, before, after)
       ELSE <<r[1]>> \o substitution(Tail(r), matched, before, after)

\* the text with the match at position i replaced
replaceAt(s, pattern, r, i) ==
  SubSeq(s, 1, i - 1)
  \o substitution(r, pattern, SubSeq(s, 1, i - 1),
                  SubSeq(s, i + Len(pattern), Len(s)))
  \o SubSeq(s, i + Len(pattern), Len(s))

\* s.replace(pattern, r) for a string pattern: the first occurrence only
replace(s, pattern, r) ==
  IF \E i \in 1..Len(s) : StartsWithAt(s, pattern, i)
  THEN replaceAt(s, pattern, r, MinOf({i \in 1..Len(s) : StartsWithAt(s, pattern, i)}))
  ELSE s

\* frontmatter[field] || 'N/A', as replace reads it: String(value)
orNA(frontmatter, field) ==
  IF hasField(frontmatter, field) THEN jsString(frontmatter[field]) ELSE <<"N", "/", "A">>

\* Array.isArray(tags) ? tags.join(', ') : tags || 'N/A'
tagsText(frontmatter) ==
  IF hasField(frontmatter, K_tags) /\ frontmatter[K_tags].t = "arr"
  THEN Join(frontmatter[K_tags].v, <<",", " ">>)
  ELSE orNA(frontmatter, K_tags)

\* the prompt evaluateSkill builds: six chained calls of replace
promptOf(frontmatter, body) ==
  replace(
    replace(
      replace(
        replace(
          replace(
            replace(EVALUATION_PROMPT, <<"{", "n", "a", "m", "e", "}">>, orNA(frontmatter, K_name)),
            <<"{", "d", "e", "s", "c", "r", "i", "p", "t", "i", "o", "n", "}">>, orNA(frontmatter, K_description)),
          <<"{", "t", "a", "g", "s", "}">>, tagsText(frontmatter)),
        <<"{", "a", "u", "t", "h", "o", "r", "}">>, orNA(frontmatter, K_author)),
      <<"{", "v", "e", "r", "s", "i", "o", "n", "}">>, orNA(frontmatter, K_version)),
    <<"{", "b", "o", "d", "y", "}">>, body)

\* the values a header field is given: absent, or one of these
NameValues == {Str(<<"x">>), Str(<<"{", "d", "e", "s", "c", "r", "i", "p", "t", "i", "o", "n", "}">>), Arr(<<<<"x">>, <<"y">>>>)}

DescriptionValues == {Str(<<"U", "s", "e", " ", "w", "h", "e", "n", " ", "t", "e", "s", "t", "i", "n", "g">>), Str(<<"{", "b", "o", "d", "y", "}">>)}

TagsValues == {Arr(<<<<"a">>, <<"b">>>>), Str(<<"x">>), Arr(<<<<>>>>)}

AuthorValues == {Str(<<"m", "e">>)}

VersionValues == {Str(<<"1", ".", "0", ".", "0">>)}

PromptBodies ==
  {<<"t", "e", "x", "t">>, <<"s", "e", "e", " ", "{", "b", "o", "d", "y", "}">>, <<"c", "o", "s", "t", "s", " ", "$", "$", "5">>, <<"e", "c", "h", "o", " ", "$", "&">>, <<"a", " ", "$", "'", " ", "b">>,
   <<"a", " ", "$", BQ, " ", "b">>, <<"#", " ", "T", "i", "t", "l", "e", "\n", "\n", "1", ".", " ", "f", "i", "r", "s", "t", " ", "s", "t", "e", "p">>}

\* a header field that is not there
Absent == [t |-> "absent"]

\* the frontmatter object with the fields that are there
mkFrontmatter(vals) ==
  [k \in {j \in DOMAIN vals : vals[j] # Absent} |-> vals[k]]

Frontmatters ==
  {mkFrontmatter(K_name :> n @@ K_description :> d @@ K_tags :> t
                 @@ K_author :> a @@ K_version :> v) :
     n \in NameValues \cup {Absent}, d \in DescriptionValues \cup {Absent},
     t \in TagsValues \cup {Absent}, a \in AuthorValues \cup {Absent},
     v \in VersionValues \cup {Absent}}

InitP ==
  /\ fs = <<>>
  /\ vmode = "none"
  /\ vresult = NoResult
  /\ cliIdle
  /\ judgeIdle
  /\ given \in [frontmatter : Frontmatters, body : PromptBodies]
  /\ prompt = NoResult

BuildPrompt ==
  /\ prompt = NoResult
  /\ prompt' = promptOf(given.frontmatter, given.body)
  /\ UNCHANGED <<fs, vmode, vresult, cliVars, judgeVars, given>>

NextP == BuildPrompt

SpecP == InitP /\ [][NextP]_vars

-----------------------------------------------------------------------------
(* main: the command dispatcher *)

\* largest number of skill packages in the skills directory
MaxSkills == 2

SkillPool == <<<<"b">>, <<"a">>, <<"l", "l", "m">>, <<"r", "e", "v", "i", "e", "w">>>>

\* package names that are also the mode words of the command line
ModeWordPool == <<<<"r", "e", "v", "i", "e", "w">>, <<"l", "l", "m">>, <<"b">>, <<"a">>>>

\* a listing of the skills directory with the first n packages of a pool, a
\* hidden directory and a plain file
listing(pool, n) ==
  [i \in 1..n |-> [name |-> pool[i], isDirectory |-> TRUE]]
  \o <<[name |-> <<".", "g", "i", "t">>, isDirectory |-> TRUE],
       [name |-> <<"R", "E", "A", "D", "M", "E", ".", "m", "d">>, isDirectory |-> FALSE]>>

reversed(a) == [i \in 1..Len(a) |-> a[Len(a) + 1 - i]]

GoodHeader ==
  <<<<"n", "a", "m", "e", ":", " ", "x">>, <<"d", "e", "s", "c", "r", "i", "p", "t", "i", "o", "n", ":", " ", "U", "s", "e", " ", "w", "h", "e", "n", " ", "t", "e", "s", "t", "i", "n", "g", " ", "t", "h", "e", " ", "s", "k", "i", "l", "l", "s">>,
    <<"v", "e", "r", "s", "i", "o", "n", ":", " ", "1", ".", "0", ".", "0">>, <<"t", "a", "g", "s", ":", " ", "[", "a", ",", "b", "]">>, <<"a", "u", "t", "h", "o", "r", ":", " ", "m", "e">>>>

CliFiles ==
  { NoFile,
    File(<<"#", " ", "T", "i", "t", "l", "e", "\n", "\n", "n", "o", " ", "f", "r", "o", "n", "t", "m", "a", "t", "t", "e", "r", "\n">>),
    File(mkText(GoodHeader, mkBody(FullHead, 25))),
    File(mkText(GoodHeader, <<>>)),
    File(mkText(<<<<"n", "a", "m", "e", ":", " ", "x">>, <<"d", "e", "s", "c", "r", "i", "p", "t", "i", "o", "n", ":", " ", "U", "s", "e", " ", "w", "h", "e", "n", " ", "t", "e", "s", "t", "i", "n", "g", " ", "t", "h", "e", " ", "s", "k", "i", "l", "l", "s">>,
                  <<"v", "e", "r", "s", "i", "o", "n", ":", " ", "1", ".", "0", ".", "0">>, <<"a", "u", "t", "h", "o", "r", ":", " ", "m", "e">>>>, mkBody(FullHead, 25))),
    File(mkText(<<<<"n", "a", "m", "e", ":", " ", "x">>, <<"d", "e", "s", "c", "r", "i", "p", "t", "i", "o", "n", ":", " ", "[", "a", ",", " ", "b", "]">>,
                  <<"v", "e", "r", "s", "i", "o", "n", ":", " ", "1", ".", "0", ".", "0">>, <<"t", "a", "g", "s", ":", " ", "[", "a", ",", "b", "]">>>>, mkBody(FullHead, 25))) }

ArgChoices ==
  { <<>>, <<<<"r", "e", "v", "i", "e", "w">>>>, <<<<"l", "l", "m">>>>,
    <<<<"a", "l", "l">>>>, <<<<"a", "l", "l">>, <<"r", "e", "v", "i", "e", "w">>>>, <<<<"a", "l", "l">>, <<"l", "l", "m">>>>,
    <<<<"a">>>>, <<<<"a">>, <<"r", "e", "v", "i", "e", "w">>>>, <<<<"a">>, <<"l", "l", "m">>>>,
    <<<<"b">>, <<"l", "l", "m">>>>, <<<<"l", "l", "m">>, <<"r", "e", "v", "i", "e", "w">>>>, <<<<"r", "e", "v", "i", "e", "w">>, <<"l", "l", "m">>>>,
    <<<<"z", "z">>>>, <<<<"z", "z">>, <<"r", "e", "v", "i", "e", "w">>>>, <<<<"z", "z">>, <<"l", "l", "m">>>> }

Init ==
  /\ vmode = "none"
  /\ vresult = NoResult
  /\ \E n \in 0..MaxSkills :
       /\ dirents \in {listing(SkillPool, n), reversed(listing(SkillPool, n)),
                        listing(ModeWordPool, n)}
       /\ fs \in [{dirents[i].name : i \in {j \in 1..Len(dirents) :
                                               dirents[j].isDirectory
                                               /\ dirents[j].name # <<".", "g", "i", "t">>}}
                  -> CliFiles]
  /\ args \in ArgChoices
  /\ env \in [{"LLM_API_KEY", "OPEN_AI_LLM_URL"} -> BOOLEAN]
  /\ pc = "main"
  /\ skills = <<>>
  /\ idx = 0
  /\ passed = 0
  /\ failed = 0
  /\ totalScore = Num(0)
  /\ result = NoResult
  /\ results = <<>>
  /\ llmEvaluator = FALSE
  /\ requests = <<>>
  /\ judged = <<>>
  /\ out = <<>>
  /\ summary = [printed |-> FALSE]
  /\ exitCode = -1
  /\ judgeIdle
  /\ promptIdle

verbose == includes(args, <<"r", "e", "v", "i", "e", "w">>)

\* mutant: review mode also asks for the judge
useLLM_orReview == includes(args, <<"l", "l", "m">>) \/ includes(args, <<"r", "e", "v", "i", "e", "w">>)

useLLM == includes(args, <<"l", "l", "m">>)

\* mutant: only an empty command line lists the packages
listsSkills_noArgs == Len(args) = 0

\* the first branch of main: nothing to evaluate, the packages are listed
listsSkills ==
  \/ Len(args) = 0
  \/ Len(args) = 1 /\ args[1] = <<"r", "e", "v", "i", "e", "w">>
  \/ Len(args) = 1 /\ args[1] = <<"l", "l", "m">>

allSkills == ~listsSkills /\ args[1] = <<"a", "l", "l">>

line(stream, text, skill) == [stream |-> stream, text |-> text, skill |-> skill]

\* mutant: the names of the packages are not printed
nameLines_none(stream, names) == <<>>

nameLines(stream, names) ==
  [i \in 1..Len(names) |-> line(stream, "name", names[i])]

frame == UNCHANGED <<fs, vmode, vresult, dirents, args, env, judgeVars, promptVars>>

\* process.exit(code)
exit(code) == pc' = "exited" /\ exitCode' = code

\* main().catch: an exception that escapes main is printed and ends the
\* process with status 1
caught(skill) ==
  /\ out' = out \o <<line("err", "Error:", skill)>>
  /\ exit(1)

\* mutant: the loop never counts a failed package
tally_noFailed(r) ==
  /\ passed' = IF r.passed THEN passed + 1 ELSE passed
  /\ failed' = failed
  /\ totalScore' = IF totalScore.nan \/ "score" \notin DOMAIN r
                   THEN NaN
                   ELSE Num(totalScore.val + r.score)

\* passed++ or failed++, and totalScore += result.score (NaN once a result
\* has no score)
tally(r) ==
  /\ passed' = IF r.passed THEN passed + 1 ELSE passed
  /\ failed' = IF r.passed THEN failed ELSE failed + 1
  /\ totalScore' = IF totalScore.nan \/ "score" \notin DOMAIN r
                   THEN NaN
                   ELSE Num(totalScore.val + r.score)

\* Math.round(a / b) for a >= 0, b > 0
roundDiv(a, b) == (2 * a + b) \div (2 * b)

\* result.frontmatter && result.body
judgeable(r) == "frontmatter" \in DOMAIN r /\ Len(r.body) > 0

\* no arguments (or only a mode word): list the packages and return
MainList ==
  /\ pc = "main"
  /\ listsSkills
  /\ skills' = getSkills(dirents)
  /\ out' = <<line("out", "Available skills:", <<>>)>>
            \o nameLines("out", skills')
            \o <<line("out", "Usage:", <<>>)>>
  /\ pc' = "returned"
  /\ exitCode' = 0
  /\ UNCHANGED <<idx, passed, failed, totalScore, result, results, llmEvaluator,
                 requests, judged, summary>>
  /\ frame

\* "all": the counters are set and the loop is entered
MainAll ==
  /\ pc = "main"
  /\ allSkills
  /\ skills' = getSkills(dirents)
  /\ out' = <<line("out", "Evaluating all skills", <<>>)>>
  /\ passed' = 0 /\ failed' = 0 /\ totalScore' = Num(0)
  /\ idx' = 1
  /\ pc' = "loop"
  /\ UNCHANGED <<result, results, llmEvaluator, requests, judged, summary,
                 exitCode>>
  /\ frame

\* a name that is no discovered package
MainUnknown ==
  /\ pc = "main"
  /\ ~listsSkills /\ ~allSkills
  /\ ~includes(getSkills(dirents), args[1])
  /\ skills' = getSkills(dirents)
  /\ out' = <<line("err", "Error: Skill not found.", args[1]),
              line("err", "Available skills:", <<>>)>>
            \o nameLines("err", skills')
  /\ exit(1)
  /\ UNCHANGED <<idx, passed, failed, totalScore, result, results, llmEvaluator,
                 requests, judged, summary>>
  /\ frame

\* the rest of main for one package once validateSkill has returned r
single(r, name) ==
  IF threw(r)
  THEN caught(name) /\ UNCHANGED <<result, results>>
  ELSE /\ result' = r
       /\ results' = Append(results, r)
       /\ out' = <<line("out", "Evaluating:", name),
                   line("out", "result", name),
                   line("out", "Score:", name),
                   line("out", "Status:", name)>>
       /\ exit(IF r.passed THEN 0 ELSE 1)

\* one package in lint or review mode
MainSingle ==
  /\ pc = "main"
  /\ ~listsSkills /\ ~allSkills /\ ~useLLM
  /\ includes(getSkills(dirents), args[1])
  /\ skills' = getSkills(dirents)
  /\ single(validateSkill(fs, args[1], verbose), args[1])
  /\ UNCHANGED <<idx, passed, failed, totalScore, llmEvaluator, requests, judged,
                 summary>>
  /\ frame

\* mutant: the rule-based section is not printed
part1_silent(name) == <<line("out", "Evaluating:", name)>>

\* what is printed for PART 1 of an llm-mode evaluation
part1(name) ==
  <<line("out", "Evaluating:", name),
    line("out", "PART 1: Rule-based Validation", name),
    line("out", "Validation Checks", name)>>

\* the rest of main for one package once validateSkillDetailed has returned
\* r, up to the call of evaluateWithLLM
singleLLM(r, name) ==
  IF threw(r)
  THEN /\ out' = <<line("out", "Evaluating:", name), line("err", "Error:", name)>>
       /\ exit(1)
       /\ UNCHANGED <<result, results>>
  ELSE /\ result' = r
       /\ results' = Append(results, r)
       /\ IF judgeable(r)
          THEN /\ out' = part1(name) \o
                   <<line("out", "PART 2: LLM Qualitative Analysis", name)>>
               /\ pc' = "import"
               /\ UNCHANGED exitCode
          ELSE /\ out' = part1(name) \o
                   <<line("out", "Skill evaluation completed or failed", name)>>
               /\ exit(IF r.passed THEN 0 ELSE 1)

\* one package in llm mode, up to the call of evaluateWithLLM
MainSingleLLM ==
  /\ pc = "main"
  /\ ~listsSkills /\ ~allSkills /\ useLLM
  /\ includes(getSkills(dirents), args[1])
  /\ skills' = getSkills(dirents)
  /\ singleLLM(validateSkillDetailed(fs, args[1]), args[1])
  /\ UNCHANGED <<idx, passed, failed, totalScore, llmEvaluator, requests, judged,
                 summary>>
  /\ frame

\* the body of the loop once validateSkill has returned r
iteration(r, name) ==
  IF threw(r)
  THEN /\ caught(name)
       /\ UNCHANGED <<idx, passed, failed, totalScore, result, results>>
  ELSE /\ result' = r
       /\ results' = Append(results, r)
       /\ out' = out \o <<line("out", "result", name)>>
       /\ tally(r)
       /\ idx' = idx + 1
       /\ UNCHANGED <<pc, exitCode>>

\* one iteration of the loop in lint or review mode
LoopValidate ==
  /\ pc = "loop"
  /\ idx <= Len(skills)
  /\ ~useLLM
  /\ iteration(validateSkill(fs, skills[idx], verbose), skills[idx])
  /\ UNCHANGED <<skills, llmEvaluator, requests, judged, summary>>
  /\ frame

\* the body of the loop once validateSkillDetailed has returned r, up to
\* the call of evaluateWithLLM
iterationLLM(r, name) ==
  IF threw(r)
  THEN /\ out' = out \o <<line("out", "Evaluating:", name),
                          line("err", "Error:", name)>>
       /\ exit(1)
       /\ UNCHANGED <<idx, passed, failed, totalScore, result, results>>
  ELSE /\ result' = r
       /\ results' = Append(results, r)
       /\ IF judgeable(r)
          THEN /\ out' = out \o part1(name) \o
                   <<line("out", "PART 2: LLM Qualitative Analysis", name)>>
               /\ pc' = "import"
               /\ UNCHANGED <<idx, passed, failed, totalScore, exitCode>>
          ELSE /\ out' = out \o part1(name) \o
                   <<line("out", "Skill evaluation completed successfully!", name)>>
               /\ tally(r)
               /\ idx' = idx + 1
               /\ UNCHANGED <<pc, exitCode>>

\* one iteration of the loop in llm mode, up to the call of evaluateWithLLM
LoopValidateDetailed ==
  /\ pc = "loop"
  /\ idx <= Len(skills)
  /\ useLLM
  /\ iterationLLM(validateSkillDetailed(fs, skills[idx]), skills[idx])
  /\ UNCHANGED <<skills, llmEvaluator, requests, judged, summary>>
  /\ frame

\* process.env.OPEN_AI_LLM_URL || 'https://api.groq.com/openai/v1'
BASE_URL ==
  IF env["OPEN_AI_LLM_URL"] THEN "OPEN_AI_LLM_URL" ELSE "https://api.groq.com/openai/v1"

\* mutant: the judge module does not check its credential
API_KEY_unchecked == TRUE

\* process.env.LLM_API_KEY, as the check !API_KEY reads it
API_KEY == env["LLM_API_KEY"]

\* mutant: callLLM sends its request again
fetch_retry(sent, skill) ==
  Append(Append(sent, [skill |-> skill, url |-> BASE_URL]),
         [skill |-> skill, url |-> BASE_URL])

\* callLLM's fetch: one POST to BASE_URL/chat/completions
fetch(sent, skill) == Append(sent, [skill |-> skill, url |-> BASE_URL])

\* evaluateWithLLM, up to the fetch: the judge module is imported on first
\* use, and its top level ends the process when LLM_API_KEY is not set;
\* otherwise evaluateSkill sends the one request
LoadAndRequest ==
  /\ pc = "import"
  /\ IF ~llmEvaluator /\ ~API_KEY
     THEN /\ out' = out \o
                <<line("err", "Error: LLM_API_KEY environment variable is required",
                       result.skill),
                  line("err", "Set it in .env file", result.skill)>>
          /\ exit(1)
          /\ UNCHANGED <<llmEvaluator, requests>>
     ELSE /\ llmEvaluator' = TRUE
          /\ requests' = fetch(requests, result.skill)
          /\ pc' = "fetch"
          /\ UNCHANGED <<out, exitCode>>
  /\ UNCHANGED <<skills, idx, passed, failed, totalScore, result, results, judged,
                 summary>>
  /\ frame

\* main after evaluateWithLLM has settled with e: the end of the iteration
\* (all-skills) or the exit (one package)
settled(e, name) ==
  IF e.threw
  THEN /\ caught(name)
       /\ judged' = Append(judged, "threw")
       /\ UNCHANGED <<idx, passed, failed, totalScore>>
  ELSE /\ judged' = Append(judged, e.printed)
       /\ IF allSkills
          THEN /\ out' = out \o
                   [i \in 1..Len(e.logged) |-> line("err", e.logged[i], name)] \o
                   <<line(IF e.value = "null" THEN "err" ELSE "out", e.printed, name),
                     line("out", "Skill evaluation completed successfully!", name)>>
               /\ tally(result)
               /\ idx' = idx + 1
               /\ pc' = "loop"
               /\ UNCHANGED exitCode
          ELSE /\ out' = out \o
                   [i \in 1..Len(e.logged) |-> line("err", e.logged[i], name)] \o
                   <<line(IF e.value = "null" THEN "err" ELSE "out", e.printed, name),
                     line("out", "Skill evaluation completed or failed", name)>>
               /\ exit(IF result.passed THEN 0 ELSE 1)
               /\ UNCHANGED <<idx, passed, failed, totalScore>>

\* the fetch settles: evaluateWithLLM reports and returns, and main goes on
\* mutant: the judge call is never settled
JudgeSettles_never == FALSE /\ UNCHANGED vars

JudgeSettles ==
  /\ pc = "fetch"
  /\ \E response \in Responses : settled(evaluateWithLLM(response), result.skill)
  /\ UNCHANGED <<skills, result, results, llmEvaluator, requests, summary>>
  /\ frame

\* mutant: the summary is printed in llm mode too
printsSummary_always == TRUE

\* if (!useLLM): the summary block after the loop
printsSummary == ~useLLM

\* after the last package: the summary (not in llm mode) and the exit
LoopEnd ==
  /\ pc = "loop"
  /\ idx > Len(skills)
  /\ IF printsSummary
     THEN /\ summary' = [printed |-> TRUE, passed |-> passed, failed |-> failed,
                         count |-> Len(skills),
                         avgScore |-> IF Len(skills) > 0
                                      THEN roundDiv(totalScore.val, Len(skills))
                                      ELSE 0,
                         status |-> IF failed = 0 THEN "PASSED" ELSE "FAILED"]
          /\ out' = out \o <<line("out", "Summary:", <<>>),
                             line("out", "Average Score:", <<>>),
                             line("out", "Status:", <<>>)>>
     ELSE UNCHANGED <<summary, out>>
  /\ exit(IF failed > 0 THEN 1 ELSE 0)
  /\ UNCHANGED <<skills, idx, passed, failed, totalScore, result, results,
                 llmEvaluator, requests, judged>>
  /\ frame

Next ==
  \/ MainList
  \/ MainAll
  \/ MainUnknown
  \/ MainSingle
  \/ MainSingleLLM
  \/ LoopValidate
  \/ LoopValidateDetailed
  \/ LoadAndRequest
  \/ JudgeSettles
  \/ LoopEnd

Spec == Init /\ [][Next]_vars

\* the steps of main() itself: synchronous code, and the awaited import of the
\* evaluator module
ProgramStep ==
  \/ MainList
  \/ MainAll
  \/ MainUnknown
  \/ MainSingle
  \/ MainSingleLLM
  \/ LoopValidate
  \/ LoopValidateDetailed
  \/ LoadAndRequest
  \/ LoopEnd

\* the points from which main() runs on by itself: it waits for nothing but
\* the import of a local module
running == pc \in {"main", "loop", "import"}

\* main() runs on: it comes to another point, or to the next package of the
\* loop (every step of ProgramStep does one or the other)
RunsOn ==
  /\ running
  /\ pc' \in {"main", "loop", "import", "fetch", "returned", "exited"}
  /\ idx' \in 0..(MaxSkills + 1)

\* the dispatcher when main() runs on whenever it can, and every judge call
\* that was started is settled in the end, fulfilled or rejected
SpecLive == Spec /\ WF_<<pc, idx>>(RunsOn) /\ WF_vars(JudgeSettles)

-----------------------------------------------------------------------------
(* Properties of the validators, checked under SpecV *)

doc == fs[SkillA]

\* the validator under test has returned a result (it did not throw)
returned == vmode # "none" /\ ~threw(vresult)

\* the document exists and parseSkillFile finds its frontmatter
parses == doc.exists /\ ~isError(parseSkillFile(doc))

header == parseSkillFile(doc).frontmatter

\* F and W: the fail and warn checks recorded in a result
failCount(r) ==
  IF "errors" \in DOMAIN r THEN Len(r.errors)
  ELSE Cardinality({i \in 1..Len(r.checks) : r.checks[i].status = "fail"})

warnCount(r) ==
  IF "warnings" \in DOMAIN r THEN Len(r.warnings)
  ELSE Cardinality({i \in 1..Len(r.checks) : r.checks[i].status = "warn"})

checkCount(r) ==
  IF "errors" \in DOMAIN r THEN Len(r.errors) + Len(r.warnings)
  ELSE Len(r.checks)

\* C1: for every document that parses, the score of the result equals
\* max(0, 100 - 20*F - 5*W), F and W being the fail and warn checks of that
\* same result, for validateSkill and for validateSkillDetailed.
C1_ScoreIsPenaltySum ==
  (returned /\ parses) =>
    vresult.score =
      MathMax(0, 100 - 20 * failCount(vresult) - 5 * warnCount(vresult))

\* C2: every result the validator returns, for any document and mode,
\* carries a numeric score between 0 and 100.
C2_ScoreInRange ==
  returned => ("score" \in DOMAIN vresult /\ vresult.score \in 0..100)

\* C3: in every validation result, passed is true if and only if the result
\* holds no check with status fail, missing and unparseable documents included.
C3_PassedIffNoFail ==
  returned => (vresult.passed <=> failCount(vresult) = 0)

\* C4: the validator never raises: for every document text and every mode it
\* returns a result value.
C4_NeverRaises == vmode # "none" => ~threw(vresult)

\* where the lines of a text start: at 1 and after every newline
lineStarts(text) == {1} \cup {p + 1 : p \in {q \in 1..Len(text) : text[q] = "\n"}}

\* the line of a text that starts at position st
lineAt(text, st) ==
  LET stop == CHOOSE e \in st..(Len(text) + 1) :
                /\ e = Len(text) + 1 \/ text[e] = "\n"
                /\ \A j \in st..(e - 1) : text[j] # "\n"
  IN SubSeq(text, st, stop - 1)

\* the text starts with a metadata block: its first line is the marker ---
\* and a later line starts with a second ---
startsWithBlock(text) ==
  /\ lineAt(text, 1) = <<"-", "-", "-">>
  /\ \E st \in lineStarts(text) \ {1} : StartsWithAt(text, <<"-", "-", "-">>, st)

\* the result reports the parse failure as its one and only check
onlyParseFailure(r) ==
  /\ checkCount(r) = 1
  /\ IF "errors" \in DOMAIN r
     THEN Len(r.errors) = 1 /\ r.errors[1][1] = "Failed to parse: "
     ELSE r.checks[1].name = <<"p", "a", "r", "s", "e", "_", "e", "r", "r", "o", "r">>

\* C5: for every document whose text does not start with a metadata block,
\* parsing yields an error with no header or body, and the validator's result
\* has passed = false and exactly one check, which describes the parse failure.
C5_NoBlockIsOneFailure ==
  (doc.exists /\ ~startsWithBlock(doc.text)) =>
    /\ DOMAIN parseSkillFile(doc) = {"error"}
    /\ vmode # "none" =>
         /\ ~threw(vresult)
         /\ vresult.passed = FALSE
         /\ onlyParseFailure(vresult)

C5_Witness ==
  /\ vmode = "llm"
  /\ doc.exists /\ Len(doc.text) = MaxRawLen
  /\ StartsWith(doc.text, <<"-", "-", "-", "\n">>)
  /\ ~startsWithBlock(doc.text)
  /\ vresult.passed = FALSE
  /\ onlyParseFailure(vresult)

requiredPresent == \A i \in 1..Len(REQUIRED_FIELDS) : REQUIRED_FIELDS[i] \in DOMAIN header

\* C6: all four required fields present and no warn check produced give
\* score = 100 and passed = true in every mode, for documents of any length.
C6_Original ==
  (returned /\ parses /\ requiredPresent /\ warnCount(vresult) = 0) =>
    (vresult.score = 100 /\ vresult.passed = TRUE)

\* C6 (amended): all four required fields present and no warn check produced
\* give score = 100 and passed = true in lint and review mode, and in llm
\* mode when the document has at most 500 lines; a longer document fails the
\* llm-mode line count check and has passed = false.
C6_Amended ==
  (returned /\ parses /\ requiredPresent /\ warnCount(vresult) = 0) =>
    IF vmode = "llm" /\ LineCount(doc.text) > MaxFileLines
    THEN vresult.passed = FALSE
    ELSE vresult.score = 100 /\ vresult.passed = TRUE

C6_Witness ==
  /\ vmode = "llm" /\ returned /\ parses /\ requiredPresent
  /\ warnCount(vresult) = 0
  /\ LineCount(doc.text) = 500
  /\ vresult.score = 100 /\ vresult.passed = TRUE

\* the result holds a fail check for the tags field
hasTagsFailure(r) ==
  IF "errors" \in DOMAIN r
  THEN \E i \in 1..Len(r.errors) :
         r.errors[i][1] = "Missing required field: " /\ r.errors[i][2] = K_tags
  ELSE \E i \in 1..Len(r.checks) :
         r.checks[i].name = <<"t", "a", "g", "s", "_", "f", "i", "e", "l", "d">> /\ r.checks[i].status = "fail"

\* C7: for every package whose header is missing the tags field, the result
\* holds a fail check for tags, has score <= 80 and has passed = false,
\* whichever validator produced it.
C7_MissingTags ==
  (returned /\ parses /\ K_tags \notin DOMAIN header) =>
    /\ hasTagsFailure(vresult)
    /\ vresult.score <= 80
    /\ vresult.passed = FALSE

\* the result holds a content heuristic check: code example, step
\* structure, trigger phrase or body length
hasHeuristic(r) ==
  IF "errors" \in DOMAIN r
  THEN \E i \in 1..Len(r.warnings) :
         r.warnings[i][1] \in {"No code examples detected",
                               "No clear step-by-step structure detected",
                               "Description missing trigger hint",
                               "SKILL.md body is short"}
  ELSE \E i \in 1..Len(r.checks) :
         r.checks[i].name \in {<<"h", "a", "s", "_", "e", "x", "a", "m", "p", "l", "e", "s">>, <<"h", "a", "s", "_", "s", "t", "r", "u", "c", "t", "u", "r", "e">>,
                               <<"d", "e", "s", "c", "r", "i", "p", "t", "i", "o", "n", "_", "t", "r", "i", "g", "g", "e", "r", "_", "h", "i", "n", "t">>, <<"b", "o", "d", "y", "_", "l", "e", "n", "g", "t", "h">>}

\* bodies put in the place of the document's own
ProbeBodies == {<<>>, <<"s", "h", "o", "r", "t", " ", "t", "e", "x", "t">>, mkBody(FullHead, 25)}

\* the document with its header kept and its body replaced by b
withBody(b) ==
  SkillA :>
    File(SubSeq(doc.text, 1, frontmatterMatch(doc.text))
         \o (IF Len(b) = 0 THEN <<>> ELSE <<"\n", "\n">> \o b \o <<"\n">>))

\* the validator under test, run on other files
validatorOf(files) ==
  IF vmode = "llm" THEN validateSkillDetailed(files, SkillA)
  ELSE validateSkill(files, SkillA, vmode = "review")

\* passed and score are what they are for every other body under the header
bodyIndependent ==
  \A b \in ProbeBodies :
    LET other == validatorOf(withBody(b))
    IN other.passed = vresult.passed /\ other.score = vresult.score

\* C23: content heuristic checks run only in review mode: without the word
\* review the result holds no content heuristic check, so for a fixed header
\* passed and score are the same for every body, in lint and in llm mode.
C23_Original ==
  (returned /\ parses /\ vmode \in {"lint", "llm"}) =>
    (~hasHeuristic(vresult) /\ bodyIndependent)

\* C23 (amended): the content heuristic checks of the lint validator run
\* only in review mode: in plain lint mode the result holds none, so for a
\* fixed header passed and score are the same for every body.  In llm mode
\* the detailed validator always runs its content checks: the trigger-phrase
\* check when there is a description, and the body length, code example and
\* structure checks when the body is not empty.
C23_Amended ==
  /\ (returned /\ parses /\ vmode = "lint") =>
       (~hasHeuristic(vresult) /\ bodyIndependent)
  /\ (returned /\ parses /\ vmode = "llm") =>
       /\ (K_description \in DOMAIN header) <=>
            \E i \in 1..Len(vresult.checks) :
              vresult.checks[i].name = <<"d", "e", "s", "c", "r", "i", "p", "t", "i", "o", "n", "_", "t", "r", "i", "g", "g", "e", "r", "_", "h", "i", "n", "t">>
       /\ \A n \in {<<"b", "o", "d", "y", "_", "l", "e", "n", "g", "t", "h">>, <<"h", "a", "s", "_", "e", "x", "a", "m", "p", "l", "e", "s">>, <<"h", "a", "s", "_", "s", "t", "r", "u", "c", "t", "u", "r", "e">>} :
            (Len(parseSkillFile(doc).body) > 0) <=>
              \E i \in 1..Len(vresult.checks) : vresult.checks[i].name = n

C23_Witness ==
  /\ vmode = "lint" /\ returned /\ parses
  /\ parseSkillFile(doc).body = <<"s", "h", "o", "r", "t", " ", "t", "e", "x", "t">>
  /\ K_description \in DOMAIN header
  /\ ~hasTriggerHint(jsString(header[K_description]))
  /\ vresult.score = 100
  /\ bodyIndependent

\* the package of the scenario: the five header fields, a fenced code block
\* in the body, and a body of 25 lines
scenarioPackage ==
  /\ parses
  /\ K_name \in DOMAIN header /\ K_author \in DOMAIN header
  /\ K_description \in DOMAIN header
  /\ header[K_description].t = "str"
  /\ Includes(header[K_description].v, <<"U", "s", "e", " ", "w", "h", "e", "n">>)
  /\ K_version \in DOMAIN header /\ header[K_version] = Str(<<"1", ".", "0", ".", "0">>)
  /\ K_tags \in DOMAIN header /\ header[K_tags] = Arr(<<<<"a">>, <<"b">>>>)
  /\ Includes(parseSkillFile(doc).body, <<BQ, BQ, BQ>>)
  /\ LineCount(parseSkillFile(doc).body) = 25

\* C24: for every package of the scenario the lint score is 100 and the
\* review score is 100 with no warnings, whatever the rest of the body
\* contains, a numbered list or a step/phase/stage heading or neither.
C24_Original ==
  (returned /\ vmode \in {"lint", "review"} /\ scenarioPackage) =>
    (vresult.score = 100 /\ vresult.warnings = <<>> /\ vresult.passed)

\* C24 (amended): for every package of the scenario the lint score is 100;
\* the review score is 100 with no warnings when the body also holds a digit
\* followed by a dot or a heading marker followed by Step, Phase or Stage,
\* and is 95 with the one warning about the step-by-step structure when it
\* does not.
C24_Amended ==
  (returned /\ vmode \in {"lint", "review"} /\ scenarioPackage) =>
    /\ vresult.passed /\ vresult.errors = <<>>
    /\ IF \/ vmode = "lint"
          \/ reDigitsDot(parseSkillFile(doc).body)
          \/ reStepHeading(parseSkillFile(doc).body)
       THEN vresult.score = 100 /\ vresult.warnings = <<>>
       ELSE /\ vresult.score = 95
            /\ vresult.warnings =
                 <<<<"No clear step-by-step structure detected", <<>>>>>>

C24_Witness ==
  /\ vmode = "review" /\ returned /\ scenarioPackage
  /\ ~reDigitsDot(parseSkillFile(doc).body)
  /\ ~reStepHeading(parseSkillFile(doc).body)
  /\ vresult.score = 95

\* the score before the clamp: 100 - 20*F - 5*W
unclamped(r) == 100 - 20 * failCount(r) - 5 * warnCount(r)

\* C26: there are inputs with many missing fields for which the unclamped
\* score 100 - 20*F - 5*W computed by validateSkill is below 0, in lint or
\* review mode, so that the clamp to 0 changes the result.
C26_Original ==
  vmode \in {"lint", "review"} =>
    \E f \in Files : \E review \in BOOLEAN :
      /\ f.exists /\ ~isError(parseSkillFile(f))
      /\ ~threw(validateSkill(SkillA :> f, SkillA, review))
      /\ unclamped(validateSkill(SkillA :> f, SkillA, review)) < 0

\* C26 (amended): for every input the unclamped score 100 - 20*F - 5*W
\* computed by validateSkill is at least 0, in lint and in review mode, so
\* the clamp to 0 never changes the result; 0 is reached with F = 4 and
\* W = 4.
C26_Amended ==
  (returned /\ parses /\ vmode \in {"lint", "review"}) =>
    /\ unclamped(vresult) >= 0
    /\ vresult.score = unclamped(vresult)
    /\ failCount(vresult) = 4 => warnCount(vresult) <= 4
    /\ 4 * failCount(vresult) + warnCount(vresult) <= 20

C26_Witness ==
  /\ vmode = "review" /\ returned /\ parses
  /\ failCount(vresult) = 4 /\ warnCount(vresult) = 4
  /\ unclamped(vresult) = 0 /\ vresult.score = 0

-----------------------------------------------------------------------------
(* Properties of the parser, checked under SpecH *)

\* the lines between the two marker lines of the document
headerLinesOf(text) ==
  Split(SubSeq(text, 5, frontmatterMatch(text) - 4), "\n")

\* the length of the key of a line: its leading word characters
keyLen(l) ==
  IF \A i \in 1..Len(l) : l[i] \in WordChar THEN Len(l)
  ELSE MinOf({i \in 1..Len(l) : l[i] \notin WordChar}) - 1

\* the line has the form key: value: a key of word characters, a colon, and
\* after it at least one character
keyValueForm(l) ==
  /\ keyLen(l) >= 1
  /\ Len(l) >= keyLen(l) + 2
  /\ l[keyLen(l) + 1] = ":"

keyOf(l) == SubSeq(l, 1, keyLen(l))

\* the value of such a line: what follows the colon, without the leading
\* white space (but never empty: of white space alone the last character)
valueOf(l) ==
  LET rest == SubSeq(l, keyLen(l) + 2, Len(l))
      solid == {i \in 1..Len(rest) : rest[i] \notin WhiteSpace}
  IN IF solid = {} THEN <<rest[Len(rest)]>>
     ELSE SubSeq(rest, MinOf(solid), Len(rest))

\* what a value becomes: the trimmed items of a bracketed list, or a scalar
asField(v) ==
  IF v[1] = "[" /\ v[Len(v)] = "]" /\ Len(v) >= 2
  THEN LET items == Split(SubSeq(v, 2, Len(v) - 1), ",")
       IN Arr([i \in 1..Len(items) |-> Trim(items[i])])
  ELSE Str(v)

\* C28: header parsing is line by line: every header line of the form
\* key: value adds its key to the header, a value wrapped in [ ... ] becoming
\* the sequence of its comma-separated, trimmed items and any other value a
\* scalar string; lines not of that form are skipped without error and add
\* no key; the header holds no other keys.
C28_HeaderLines ==
  vmode = "parse" =>
    LET ls == headerLinesOf(doc.text)
        formed == {i \in 1..Len(ls) : keyValueForm(ls[i])}
    IN /\ ~isError(vresult)
       /\ DOMAIN vresult.frontmatter = {keyOf(ls[i]) : i \in formed}
       /\ \A k \in DOMAIN vresult.frontmatter :
            vresult.frontmatter[k] =
              asField(valueOf(ls[MaxOf({i \in formed : keyOf(ls[i]) = k})]))

-----------------------------------------------------------------------------
(* Properties of the dispatcher, checked under Spec *)

\* the packages a run is to evaluate
targets == IF allSkills THEN getSkills(dirents) ELSE <<args[1]>>

\* the run evaluates packages: it neither lists them nor names an unknown one
evaluates ==
  /\ ~listsSkills
  /\ allSkills \/ includes(getSkills(dirents), args[1])

exited == pc = "exited"

\* every result a validator returned in this run has passed = true
allPassed == \A i \in 1..Len(results) : results[i].passed

\* every target package has a validation result, in order
allEvaluated ==
  /\ Len(results) = Len(targets)
  /\ \A i \in 1..Len(results) : results[i].skill = targets[i]

\* the run was ended by the judge module's check of LLM_API_KEY
credentialMissing ==
  \E i \in 1..Len(out) :
    out[i].text = "Error: LLM_API_KEY environment variable is required"

\* C8: the process exit code is 0 if and only if every evaluated package has
\* passed = true, in a single-skill run and in an all-skills run of any mode.
C8_Original == (exited /\ evaluates) => (exitCode = 0 <=> allPassed)

\* C8 (amended): an evaluation run exits with 0 if and only if every target
\* package got a validation result with passed = true and the run was not
\* ended by the missing-credential check of the judge module; otherwise 1.
C8_Amended ==
  (exited /\ evaluates) =>
    /\ exitCode \in {0, 1}
    /\ exitCode = 0 <=> (allEvaluated /\ allPassed /\ ~credentialMissing)

C8_Witness ==
  /\ exited /\ allSkills /\ useLLM
  /\ Len(results) = 2 /\ allEvaluated /\ allPassed
  /\ Len(judged) = 2
  /\ exitCode = 0

\* C9: in all-skills mode every discovered package is evaluated exactly once
\* before the process exits, whatever happened for earlier packages.
C9_AllEvaluated ==
  (exited /\ allSkills) =>
    /\ Len(results) = Len(skills)
    /\ \A i \in 1..Len(results) : results[i].skill = skills[i]

\* C10: in llm mode the exit code depends only on what the validator
\* returned: once the judge has been called, the run exits with 0 exactly
\* when every target package got a result with passed = true, whether the
\* judge calls failed or succeeded.
C10_ExitIgnoresJudge ==
  (exited /\ useLLM /\ Len(judged) > 0) =>
    (exitCode = 0 <=> (allEvaluated /\ allPassed))

C10_Witness ==
  /\ exited /\ allSkills /\ useLLM
  /\ Len(judged) = 2
  /\ judged[1] = "LLM evaluation failed" /\ judged[2] = "Judge Evaluation"
  /\ allPassed
  /\ exitCode = 0

\* a validated package went on to the judge: evaluateWithLLM was called for it
judgeCalled ==
  /\ useLLM
  /\ pc # "import"
  /\ \E i \in 1..Len(results) : judgeable(results[i])

namesPackage ==
  /\ ~listsSkills /\ ~allSkills
  /\ includes(getSkills(dirents), args[1])

\* a line with text a is printed before a line with text b
printedBefore(a, b) ==
  \E i \in 1..Len(out) : \E j \in (i + 1)..Len(out) :
    out[i].text = a /\ out[j].text = b

\* C12: when llm mode is requested and no API credential is configured, then
\* for every named package the rule-based validation section is printed
\* first, a configuration error message is printed, no network call is made,
\* and the process exits with code 1, packages with an empty body or a
\* document that does not parse included.
C12_NoCredential ==
  (exited /\ namesPackage /\ useLLM /\ ~env["LLM_API_KEY"]) =>
    /\ printedBefore("PART 1: Rule-based Validation",
                     "Error: LLM_API_KEY environment variable is required")
    /\ requests = <<>>
    /\ exitCode = 1

\* the run has ended: main returned or the process exited
ended == pc \in {"returned", "exited"}

\* a validator-only run: the list, or an evaluation without the word llm
validatorOnly ==
  \/ Len(args) = 0
  \/ Len(args) = 1 /\ args[1] \in {<<"r", "e", "v", "i", "e", "w">>, <<"l", "l", "m">>}
  \/ \A i \in 1..Len(args) : args[i] # <<"l", "l", "m">>

\* what an all-skills lint or review run prints for the packages names, the
\* set t holding the positions of the packages whose validation throws
allLines(names, t) ==
  IF t = {}
  THEN [i \in 1..Len(names) |-> line("out", "result", names[i])]
       \o <<line("out", "Summary:", <<>>),
            line("out", "Average Score:", <<>>),
            line("out", "Status:", <<>>)>>
  ELSE [i \in 1..(MinOf(t) - 1) |-> line("out", "result", names[i])]
       \o <<line("err", "Error:", names[MinOf(t)])>>

\* what a validator-only run prints, read off the arguments, the skills
\* directory and the documents alone
expectedOut(names, review) ==
  IF listsSkills
  THEN <<line("out", "Available skills:", <<>>)>> \o nameLines("out", names)
       \o <<line("out", "Usage:", <<>>)>>
  ELSE IF args[1] = <<"a", "l", "l">>
  THEN <<line("out", "Evaluating all skills", <<>>)>>
       \o allLines(names, {i \in 1..Len(names) :
                             threw(validateSkill(fs, names[i], review))})
  ELSE IF ~includes(names, args[1])
  THEN <<line("err", "Error: Skill not found.", args[1]),
         line("err", "Available skills:", <<>>)>> \o nameLines("err", names)
  ELSE IF threw(validateSkill(fs, args[1], review))
  THEN <<line("err", "Error:", args[1])>>
  ELSE <<line("out", "Evaluating:", args[1]), line("out", "result", args[1]),
         line("out", "Score:", args[1]), line("out", "Status:", args[1])>>

\* the exit code of a validator-only run, read off the same
expectedExit(names, review) ==
  IF listsSkills THEN 0
  ELSE IF args[1] = <<"a", "l", "l">>
  THEN IF \A i \in 1..Len(names) :
            /\ ~threw(validateSkill(fs, names[i], review))
            /\ validateSkill(fs, names[i], review).passed
       THEN 0 ELSE 1
  ELSE IF ~includes(names, args[1]) THEN 1
  ELSE IF threw(validateSkill(fs, args[1], review)) THEN 1
  ELSE IF validateSkill(fs, args[1], review).passed THEN 0 ELSE 1

\* C13: judge configuration never affects validator-only runs: in list, lint
\* and review modes the judge module is never loaded, no credential check is
\* made, and the output and the exit code are what the arguments, the skills
\* directory and the documents determine, whatever the URL and credential.
C13_ValidatorOnlyIgnoresJudge ==
  validatorOnly =>
    /\ llmEvaluator = FALSE
    /\ pc \notin {"import", "fetch"}
    /\ requests = <<>> /\ judged = <<>>
    /\ ~credentialMissing
    /\ ended =>
         /\ out = expectedOut(getSkills(dirents), includes(args, <<"r", "e", "v", "i", "e", "w">>))
         /\ exitCode = expectedExit(getSkills(dirents), includes(args, <<"r", "e", "v", "i", "e", "w">>))

C13_Witness ==
  /\ validatorOnly /\ exited /\ allSkills
  /\ includes(args, <<"r", "e", "v", "i", "e", "w">>)
  /\ ~env["LLM_API_KEY"] /\ ~env["OPEN_AI_LLM_URL"]
  /\ Len(results) = 2
  /\ summary.printed
  /\ exitCode = 0

\* C17: each invocation of evaluateSkill issues exactly one HTTP request and
\* never retries, whatever the outcome; an llm-mode run issues at most one
\* request per package, and a failed call ends that package's judge section
\* only: the loop goes on with the next package.
C17_OneRequestPerCall ==
  /\ Len(requests) = Len(judged) + (IF pc = "fetch" THEN 1 ELSE 0)
  /\ \A i \in 1..Len(requests) : \A j \in 1..Len(requests) :
       requests[i].skill = requests[j].skill => i = j
  /\ \A i \in 1..Len(requests) : \E k \in 1..Len(results) :
       results[k].skill = requests[i].skill /\ judgeable(results[k])
  /\ (allSkills /\ pc = "loop") => idx = Len(results) + 1

C17_Witness ==
  /\ exited /\ allSkills
  /\ Len(results) = 2 /\ Len(requests) = 2
  /\ judged = <<"LLM evaluation failed", "LLM evaluation failed">>

\* the lines printed for a package, in print order
packageLines == SelectSeq(out, LAMBDA l : l.skill # <<>>)

\* C18: in all-skills llm mode at most one judge call is in flight at any
\* time, and the packages are processed strictly in sorted name order: the
\* judge call and all output of a package complete before validation or any
\* output of the next one, so output order equals iteration order.
C18_OneAtATimeInOrder ==
  (allSkills /\ useLLM /\ pc # "main") =>
    /\ Len(requests) - Len(judged) \in {0, 1}
    /\ \A i \in 1..Len(skills) : \A j \in (i + 1)..Len(skills) :
         sortsBefore(skills[i], skills[j])
    /\ Len(results) <= Len(skills)
    /\ \A i \in 1..Len(results) : results[i].skill = skills[i]
    /\ \A i \in 1..Len(packageLines) : \A j \in (i + 1)..Len(packageLines) :
         ~sortsBefore(packageLines[j].skill, packageLines[i].skill)
    /\ pc \in {"import", "fetch"} =>
         /\ Len(results) = idx
         /\ \A i \in 1..Len(packageLines) : packageLines[i].skill # skills[idx] =>
              sortsBefore(packageLines[i].skill, skills[idx])

C18_Witness ==
  /\ exited /\ allSkills /\ useLLM
  /\ dirents[1].name = <<"b">>
  /\ skills = <<<<"a">>, <<"b">>>>
  /\ Len(judged) = 2
  /\ \E i \in 1..Len(packageLines) : packageLines[i].skill = <<"b">>

\* the first argument is a name, not all, and no discovered package has it
unknownName ==
  /\ ~listsSkills
  /\ args[1] # <<"a", "l", "l">>
  /\ \A i \in 1..Len(getSkills(dirents)) : getSkills(dirents)[i] # args[1]

listed ==
  /\ pc = "returned" /\ exitCode = 0
  /\ out = <<line("out", "Available skills:", <<>>)>>
           \o [i \in 1..Len(getSkills(dirents)) |->
                 line("out", "name", getSkills(dirents)[i])]
           \o <<line("out", "Usage:", <<>>)>>

\* the run went through every package
fannedOut ==
  /\ exited
  /\ out[1] = line("out", "Evaluating all skills", <<>>)

\* the first argument was taken as a package name: its validation was
\* started if it is discovered, otherwise the unknown-name error was given
asName ==
  /\ exited
  /\ IF \E i \in 1..Len(getSkills(dirents)) : getSkills(dirents)[i] = args[1]
     THEN \/ Len(results) = 1 /\ results[1].skill = args[1]
          \/ results = <<>> /\ out[Len(out)] = line("err", "Error:", args[1])
     ELSE /\ out[1] = line("err", "Error: Skill not found.", args[1])
          /\ exitCode = 1

\* what a run does when the list is due exactly on listDue
selects(listDue) ==
  IF listDue THEN listed
  ELSE /\ ~listed
       /\ IF args[1] = <<"a", "l", "l">> THEN fannedOut ELSE asName

summaryLines ==
  <<line("out", "Summary:", <<>>), line("out", "Average Score:", <<>>),
    line("out", "Status:", <<>>)>>

\* the summary is the last thing printed, after the lines of every package
summaryLast ==
  /\ summary.printed
  /\ Len(out) >= 3
  /\ SubSeq(out, Len(out) - 2, Len(out)) = summaryLines
  /\ \A i \in 1..(Len(out) - 3) : out[i].text \notin {"Summary:", "Average Score:"}
  /\ \A k \in 1..Len(skills) : \E i \in 1..(Len(out) - 3) : out[i].skill = skills[k]

noSummary ==
  /\ ~summary.printed
  /\ \A i \in 1..Len(out) : out[i].text \notin {"Summary:", "Average Score:"}

afterIteration ==
  allSkills /\ idx > 0 /\ (pc = "loop" \/ (exited /\ idx > Len(skills)))

RECURSIVE sumScores(_)
sumScores(rs) ==
  IF Len(rs) = 0 THEN 0
  ELSE (IF "score" \in DOMAIN Head(rs) THEN Head(rs).score ELSE 0)
       + sumScores(Tail(rs))

\* n is a / b rounded to the nearest integer, halves upwards
isRounded(n, a, b) == 2 * n * b <= 2 * a + b /\ 2 * a + b < 2 * (n + 1) * b

\* C22: in an all-skills run, after each loop iteration passed + failed is
\* the number of packages processed so far and totalScore is the sum of their
\* scores; in the summary the status is PASSED iff every package passed, the
\* average is round(totalScore / count) when count > 0, and 0 (no division)
\* with zero packages.
C22_Aggregate ==
  /\ afterIteration =>
       /\ Len(results) = idx - 1
       /\ passed + failed = Len(results)
       /\ passed = Cardinality({i \in 1..Len(results) : results[i].passed})
       /\ ~totalScore.nan
       /\ totalScore.val = sumScores(results)
  /\ summary.printed =>
       /\ summary.count = Len(results)
       /\ summary.passed + summary.failed = summary.count
       /\ summary.status = "PASSED" <=> allPassed
       /\ IF summary.count > 0
          THEN isRounded(summary.avgScore, sumScores(results), summary.count)
          ELSE summary.avgScore = 0

\* evaluateWithLLM was called for the package p: its call is awaited, its
\* request was sent, or the import of the judge module ended the process
calledFor(p) ==
  \/ pc = "import" /\ result # NoResult /\ result.skill = p
  \/ \E i \in 1..Len(requests) : requests[i].skill = p
  \/ \E i \in 1..Len(out) :
       /\ out[i].text = "Error: LLM_API_KEY environment variable is required"
       /\ out[i].skill = p

\* the document of p parsed and its trimmed body is not empty
docJudgeable(p) ==
  /\ fs[p].exists
  /\ ~isError(parseSkillFile(fs[p]))
  /\ Len(parseSkillFile(fs[p]).body) > 0

\* C27: in llm mode the judge is called for a package if and only if its
\* document parsed and its trimmed body is not empty: it is called even when
\* the rule-based validation failed, and never for a missing document, an
\* unparseable document or a document with an empty body.
C27_JudgeCalledIff ==
  (useLLM /\ evaluates) =>
    /\ \A i \in 1..Len(targets) : calledFor(targets[i]) => docJudgeable(targets[i])
    /\ ended =>
         \A i \in 1..Len(targets) : docJudgeable(targets[i]) => calledFor(targets[i])

\* where the lines with the given text are printed for the package p
printedAt(text, p) == {i \in 1..Len(out) : out[i].text = text /\ out[i].skill = p}

\* the rule-based validation section of p is printed: its heading and its
\* checks, once each
sectionPrinted(p) ==
  /\ Cardinality(printedAt("PART 1: Rule-based Validation", p)) = 1
  /\ Cardinality(printedAt("Validation Checks", p)) = 1

C30_Terminates ==
  /\ <>ended
  /\ [][running => ProgramStep /\ <<pc, idx>>' # <<pc, idx>>]_vars
  /\ [][pc = "fetch" => JudgeSettles]_vars

\* an all-skills llm run has ended after two judge calls were settled
C30_Witness ==
  /\ exited /\ allSkills /\ useLLM
  /\ Len(requests) = 2 /\ Len(judged) = 2
  /\ judged[1] # judged[2]

-----------------------------------------------------------------------------
(* Properties of the judge's prompt, checked under SpecP *)

\* the template with each placeholder replaced by the value of its field
filledTemplate(frontmatter, body) ==
  <<"A", "n", "a", "l", "y", "z", "e", " ", "t", "h", "i", "s", " ", "A", "g", "e", "n", "t", " ", "S", "k", "i", "l", "l", " ", "f", "o", "r", " ", "q", "u", "a", "l", "i", "t", "y", ":", "\n", "\n", "N", "a", "m", "e", ":", " ">>
  \o orNA(frontmatter, K_name)
  \o <<"\n", "D", "e", "s", "c", "r", "i", "p", "t", "i", "o", "n", ":", " ">> \o orNA(frontmatter, K_description)
  \o <<"\n", "T", "a", "g", "s", ":", " ">> \o tagsText(frontmatter)
  \o <<"\n", "A", "u", "t", "h", "o", "r", ":", " ">> \o orNA(frontmatter, K_author)
  \o <<"\n", "V", "e", "r", "s", "i", "o", "n", ":", " ">> \o orNA(frontmatter, K_version)
  \o <<"\n", "\n", "C", "o", "n", "t", "e", "n", "t", ":", "\n">> \o body \o <<"\n", "\n">>
  \o PromptRest

\* C25: the prompt built by evaluateSkill is the fixed template with each of
\* the six placeholders replaced by exactly the value of its field (N/A for
\* an absent header field, tags joined with a comma and a space), for all
\* values, those that hold placeholder text themselves included.
C25_PromptIsTemplate ==
  prompt # NoResult => prompt = filledTemplate(given.frontmatter, given.body)

-----------------------------------------------------------------------------
(* Properties of the judge's decoding, checked under SpecJ *)

\* evaluateSkill has run on the response
evaluated == decoded # NoResult

\* C14: decoding gives the same result for a fence-wrapped response and the
\* bare response: for every JSON text J, J wrapped in a fence, with or
\* without the json label and however the fence is laid out, decodes to what
\* J decodes to, and decoding fails with no error other than the
\* malformed-response error.
C14_FenceInvariant ==
  (evaluated /\ reply.shape = "choices" /\ reply.carried \in JsonTexts) =>
    /\ decoded = evaluateSkillOf([shape |-> "choices", text |-> reply.carried])
    /\ decoded.threw => decoded.error = "Failed to parse LLM response as JSON"

\* C15: whenever the completion text is not parseable structured data, an
\* empty or missing completion text included, evaluateSkill fails with an
\* error that reaches the caller, and returns no evaluation in its place.
C15_MalformedSurfaces ==
  (evaluated /\ reply.layout = "bare" /\ reply.carried \in OtherTexts) =>
    decoded.threw

sum4(c) == c[1] + c[2] + c[3] + c[4]

\* the criteria of a category are in 1..3 and its score is
\* round(sum / 12 * 100)
categoryDerived(cat) ==
  /\ \A i \in 1..4 : cat.criteria[i] \in {1, 2, 3}
  /\ cat.score = roundDiv(sum4(cat.criteria) * 100, 12)

\* the value is an evaluation whose scores are derived from its criteria
wellFormed(value) ==
  /\ value \in DOMAIN Evaluations
  /\ categoryDerived(Evaluations[value].description)
  /\ categoryDerived(Evaluations[value].content)
  /\ categoryDerived(Evaluations[value].structure)
  /\ 3 * Evaluations[value].overall_score =
       Evaluations[value].description.score + Evaluations[value].content.score
       + Evaluations[value].structure.score

\* C16: every evaluation evaluateSkill returns has each criterion in
\* {1,2,3}, each category score equal to round(sum of its criteria / 12 * 100)
\* and overall_score equal to the mean of the three category scores, for any
\* response the endpoint may send.
C16_EvaluationWellFormed ==
  (evaluated /\ ~decoded.threw) => wellFormed(decoded.value)

====
